---- MODULE Spec2Model ----
(***************************************************************************)
(* Dependency-graph construction and hierarchical layout of the            *)
(* cartography provider: DiagramGenerator.Generate, graph.BuildGraph and   *)
(* renderer.CalculateImprovedLayout, as a state machine.                   *)
(*                                                                         *)
(* Lengths are kept in twentieths of a pixel (Unit), so that the factors   *)
(* 1.5, 0.2 and the halving of the centring offset stay exact on integer   *)
(* pixel parameters.                                                       *)
(***************************************************************************)
EXTENDS Integers, Sequences, FiniteSets, TLC

\* ------------------------------------------------------------------------
\* Bounds of the explored inputs
\* ------------------------------------------------------------------------
MaxRes == 3
MaxDeps == 2
ChainLen == 21

\* nodes of one layer in the graphs handed directly to CalculateImprovedLayout
MaxRow == 3

\* requests made on one input
MaxRuns == 2

\* dependents of one node in the wide fan-in input of the layout
WideFanIn == 7

\* nodes of one layer in the small inputs of reorderLayerByBarycenter
MaxSiblings == 3

\* ------------------------------------------------------------------------
\* Program constants
\* ------------------------------------------------------------------------
MaxLayers == 20
SeedCap == 3
CrossingPasses == 3
OverlapMargin == 10
ExportNodeWidth == 220
ExportNodeHeight == 160
ExportHSpacing == 140
ExportVSpacing == 120
ConnectionSpacing == 30
ArrowClearance == 10
StraightBelow == 50
CurveBelow == 100
IntersectMargin == 20
BezierSteps == 25
AvoidanceOffset == 80
MaxInsertion == 12
\* twentieths of a pixel: the least unit in which w*0.2, s*1.5 and the halved offset are integers
Unit == 4 * 5

\* ------------------------------------------------------------------------
\* Generic helpers
\* ------------------------------------------------------------------------
Nil == "<nil>"
Absent == "<absent>"
EmptyMap == [x \in {} |-> x]

Range(s) == {s[k] : k \in 1..Len(s)}

Min2(a, b) == IF a < b THEN a ELSE b

Max2(a, b) == IF a > b THEN a ELSE b

Abs(a) == IF a < 0 THEN -a ELSE a

\* every order in which a range loop over a Go map may visit the keys S
RECURSIVE Orders(_)
Orders(S) == IF S = {} THEN {<<>>} ELSE UNION {{<<x>> \o p : p \in Orders(S \ {x})} : x \in S}

RECURSIVE SeqsUpTo(_, _)
SeqsUpTo(S, n) ==
    IF n = 0 THEN {<<>>}
    ELSE LET shorter == SeqsUpTo(S, n - 1)
         IN shorter \cup {Append(s, x) : s \in {t \in shorter : Len(t) = n - 1}, x \in S}

\* ------------------------------------------------------------------------
\* parser: resource categories and the exclusion predicate
\* ------------------------------------------------------------------------
NetworkTypes == {"azurerm_virtual_network", "azurerm_subnet", "aws_vpc", "aws_subnet", "digitalocean_vpc"}

SecurityTypes == {"azurerm_network_security_group", "azurerm_network_security_rule", "aws_security_group",
                  "aws_security_group_rule", "aws_network_acl", "digitalocean_firewall"}

ComputeTypes == {"azurerm_virtual_machine", "azurerm_linux_virtual_machine", "azurerm_windows_virtual_machine",
                 "aws_instance", "aws_launch_template", "digitalocean_droplet",
                 "digitalocean_kubernetes_cluster", "digitalocean_app"}

LoadBalancerTypes == {"azurerm_lb", "azurerm_lb_backend_address_pool", "azurerm_lb_rule", "aws_lb", "aws_alb",
                      "aws_lb_target_group", "aws_lb_listener", "digitalocean_loadbalancer"}

StorageTypes == {"azurerm_storage_account", "azurerm_managed_disk", "aws_s3_bucket", "aws_ebs_volume",
                 "digitalocean_spaces_bucket", "digitalocean_volume"}

DatabaseTypes == {"azurerm_sql_server", "azurerm_sql_database", "aws_db_instance", "aws_dynamodb_table",
                  "digitalocean_database_cluster", "digitalocean_database_db", "digitalocean_database_replica"}

DNSTypes == {"azurerm_dns_zone", "aws_route53_zone", "aws_route53_record", "digitalocean_domain",
             "digitalocean_record"}

CertificateTypes == {"azurerm_key_vault_certificate", "aws_acm_certificate", "aws_acm_certificate_validation",
                     "aws_iam_server_certificate", "digitalocean_certificate"}

SecretTypes == {"azurerm_key_vault", "azurerm_key_vault_key", "azurerm_key_vault_secret",
                "aws_secretsmanager_secret", "aws_secretsmanager_secret_version", "aws_kms_key", "aws_kms_alias"}

ContainerTypes == {"digitalocean_container_registry"}

CDNTypes == {"digitalocean_cdn"}

GetResourceType(resourceType) ==
    CASE resourceType \in NetworkTypes -> "Network"
      [] resourceType \in SecurityTypes -> "Security"
      [] resourceType \in ComputeTypes -> "Compute"
      [] resourceType \in LoadBalancerTypes -> "LoadBalancer"
      [] resourceType \in StorageTypes -> "Storage"
      [] resourceType \in DatabaseTypes -> "Database"
      [] resourceType \in DNSTypes -> "DNS"
      [] resourceType \in CertificateTypes -> "Certificate"
      [] resourceType \in SecretTypes -> "Secret"
      [] resourceType \in ContainerTypes -> "Container"
      [] resourceType \in CDNTypes -> "CDN"
      [] OTHER -> "Unknown"

excludedTypes == {"tls_private_key", "tls_cert_request", "tls_locally_signed_cert", "tls_self_signed_cert",
                  "local_file", "local_sensitive_file", "null_resource", "random_id", "random_integer",
                  "random_password", "random_pet", "random_shuffle", "random_string", "random_uuid",
                  "time_sleep", "time_static", "time_rotating", "time_offset", "terraform_data", "external",
                  "http", "template_file", "template_dir", "template_cloudinit_config", "archive_file"}

IsCloudInfraResource(resourceType) == resourceType \notin excludedTypes

\* strings.Contains(lower(Type), "_association") and strings.Contains(lower(Type), "load_balancer"),
\* tabulated over the resource types the inputs use ("digitalocean_volume_attachment" contains
\* neither substring)
TypesWithAssociation == {"azurerm_subnet_network_security_group_association", "aws_route_table_association",
                         "azurerm_load_balancer_backend_association"}

TypesWithLoadBalancer == {"azurerm_load_balancer_backend_association"}

ShouldIncludeInDiagram(resource) ==
    IF ~IsCloudInfraResource(resource.Type) THEN FALSE
    ELSE IF resource.Type \in TypesWithAssociation /\ resource.Type \notin TypesWithLoadBalancer THEN FALSE
    ELSE TRUE

\* ------------------------------------------------------------------------
\* Inputs: resource lists handed to Generate / BuildGraph
\* ------------------------------------------------------------------------
IDPool == <<"r1", "r2", "r3", "r4", "r5">>
GhostID == "ghost"
ProviderIDs == <<"101", "102", "103", "104", "105">>
\* the same ids as JSON numbers: elements of a list attribute that are not Go strings
NumberIDs == <<"#101", "#102", "#103", "#104", "#105">>
ChainIDs == <<"c01", "c02", "c03", "c04", "c05", "c06", "c07", "c08", "c09", "c10", "c11", "c12",
              "c13", "c14", "c15", "c16", "c17", "c18", "c19", "c20", "c21", "c22", "c23", "c24">>
Directions == {"TB", "BT", "LR", "RL"}

NoAttributes ==
    [id |-> Absent, subnet_id |-> Absent, network_security_group_id |-> Absent,
     droplet_ids |-> <<>>, vpc_security_group_ids |-> <<>>]

StringAttrKeys == {"id", "subnet_id", "network_security_group_id"}

\* one entry of a profile: the type of the resource at a position, its name, whether it
\* carries an "id" attribute, and the positions whose provider ids its list attribute names
Entry(type, provider, name, hasID, refs) ==
    [Type |-> type, Provider |-> provider, Name |-> name, hasID |-> hasID, refs |-> refs]

ProfileNetwork ==
    << Entry("aws_vpc", "aws", "a", FALSE, <<>>), Entry("aws_subnet", "aws", "a", FALSE, <<>>),
       Entry("aws_instance", "aws", "b", FALSE, <<>>), Entry("aws_vpc", "aws", "b", FALSE, <<>>),
       Entry("aws_subnet", "aws", "c", FALSE, <<>>) >>

ProfileFirewall ==
    << Entry("digitalocean_firewall", "digitalocean", "a", FALSE, <<2>>),
       Entry("digitalocean_droplet", "digitalocean", "a", TRUE, <<>>),
       Entry("aws_vpc", "aws", "b", FALSE, <<>>),
       Entry("digitalocean_droplet", "digitalocean", "b", TRUE, <<>>),
       Entry("digitalocean_firewall", "digitalocean", "b", FALSE, <<2, 4>>) >>

ProfileMixed ==
    << Entry("local_file", "local", "b", FALSE, <<>>),
       Entry("digitalocean_droplet", "digitalocean", "a", TRUE, <<>>),
       Entry("digitalocean_loadbalancer", "digitalocean", "a", FALSE, <<2, 2>>),
       Entry("digitalocean_firewall", "digitalocean", "b", FALSE, <<2>>),
       Entry("aws_vpc", "aws", "a", FALSE, <<>>) >>

Profiles == {ProfileNetwork, ProfileFirewall, ProfileMixed}

AttributesOf(entry, pos) ==
    LET ids == [k \in 1..Len(entry.refs) |-> ProviderIDs[entry.refs[k]]]
    IN [NoAttributes EXCEPT
          !.id = IF entry.hasID THEN ProviderIDs[pos] ELSE Absent,
          !.droplet_ids = IF entry.Type \in {"digitalocean_firewall", "digitalocean_loadbalancer"}
                          THEN ids ELSE <<>>,
          !.vpc_security_group_ids = IF entry.Type = "aws_instance" THEN ids ELSE <<>>]

\* the declared dependencies of a list of n resources: at most MaxDeps entries
\* <<position, target>> in declaration order; a target is an ID of the list or GhostID
DepTargets(n) == {IDPool[k] : k \in 1..n} \cup {GhostID}

DepLists(n) == SeqsUpTo((1..n) \X DepTargets(n), MaxDeps)

DepsOf(depList, pos) ==
    LET mine == SelectSeq(depList, LAMBDA d : d[1] = pos)
    IN [k \in 1..Len(mine) |-> mine[k][2]]

MkResources(profile, n, depList) ==
    [pos \in 1..n |->
        [ID |-> IDPool[pos], Type |-> profile[pos].Type, Name |-> profile[pos].Name,
         Provider |-> profile[pos].Provider, Attributes |-> AttributesOf(profile[pos], pos),
         Dependencies |-> DepsOf(depList, pos)]]

\* a dependency chain of n networks: each resource depends on the next one
ChainResources(n) ==
    [pos \in 1..n |->
        [ID |-> ChainIDs[pos], Type |-> "aws_vpc", Name |-> "a", Provider |-> "aws",
         Attributes |-> NoAttributes,
         Dependencies |-> IF pos < n THEN <<ChainIDs[pos + 1]>> ELSE <<>>]]

\* an Azure subnet and network security group with the association record that names both
\* by id, a volume attachment, and a load-balancer association
HelperIDs == <<"h1", "h2", "h3", "h4", "h5">>

HelperResources ==
    << [ID |-> HelperIDs[1], Type |-> "azurerm_subnet", Name |-> "a", Provider |-> "azure",
        Attributes |-> [NoAttributes EXCEPT !.id = "201"], Dependencies |-> <<>>],
       [ID |-> HelperIDs[2], Type |-> "azurerm_network_security_group", Name |-> "a", Provider |-> "azure",
        Attributes |-> [NoAttributes EXCEPT !.id = "202"], Dependencies |-> <<>>],
       [ID |-> HelperIDs[3], Type |-> "azurerm_subnet_network_security_group_association", Name |-> "a",
        Provider |-> "azure",
        Attributes |-> [NoAttributes EXCEPT !.id = "203", !.subnet_id = "201",
                                            !.network_security_group_id = "202"],
        Dependencies |-> <<HelperIDs[1], HelperIDs[2]>>],
       [ID |-> HelperIDs[4], Type |-> "digitalocean_volume_attachment", Name |-> "a",
        Provider |-> "digitalocean", Attributes |-> NoAttributes, Dependencies |-> <<>>],
       [ID |-> HelperIDs[5], Type |-> "azurerm_load_balancer_backend_association", Name |-> "a",
        Provider |-> "azure", Attributes |-> NoAttributes, Dependencies |-> <<>>] >>

\* an instance whose security-group list names the empty id twice, and two networks without
\* an id attribute: the lookups of "" miss the index and fall back to the scan of g.Nodes
ScanResources ==
    << [ID |-> IDPool[1], Type |-> "aws_instance", Name |-> "a", Provider |-> "aws",
        Attributes |-> [NoAttributes EXCEPT !.id = ProviderIDs[1], !.vpc_security_group_ids = <<"", "">>],
        Dependencies |-> <<>>],
       [ID |-> IDPool[2], Type |-> "aws_vpc", Name |-> "a", Provider |-> "aws",
        Attributes |-> NoAttributes, Dependencies |-> <<>>],
       [ID |-> IDPool[3], Type |-> "aws_vpc", Name |-> "b", Provider |-> "aws",
        Attributes |-> NoAttributes, Dependencies |-> <<>>] >>

\* a firewall whose droplet_ids lists the id of a load balancer, the id of a droplet as a
\* number, and the id of another droplet as a string
ListedResources ==
    << [ID |-> IDPool[1], Type |-> "digitalocean_firewall", Name |-> "a", Provider |-> "digitalocean",
        Attributes |-> [NoAttributes EXCEPT
                           !.droplet_ids = <<ProviderIDs[2], NumberIDs[3], ProviderIDs[4]>>],
        Dependencies |-> <<>>],
       [ID |-> IDPool[2], Type |-> "digitalocean_loadbalancer", Name |-> "a", Provider |-> "digitalocean",
        Attributes |-> [NoAttributes EXCEPT !.id = ProviderIDs[2]], Dependencies |-> <<>>],
       [ID |-> IDPool[3], Type |-> "digitalocean_droplet", Name |-> "a", Provider |-> "digitalocean",
        Attributes |-> [NoAttributes EXCEPT !.id = ProviderIDs[3]], Dependencies |-> <<>>],
       [ID |-> IDPool[4], Type |-> "digitalocean_droplet", Name |-> "b", Provider |-> "digitalocean",
        Attributes |-> [NoAttributes EXCEPT !.id = ProviderIDs[4]], Dependencies |-> <<>>] >>

Inputs ==
    UNION {{MkResources(pn[1], pn[2], d) : d \in DepLists(pn[2])} : pn \in Profiles \X (0..MaxRes)}
    \cup {ChainResources(ChainLen), HelperResources, ScanResources, ListedResources}

\* ------------------------------------------------------------------------
\* graph: nodes, edges, attribute index
\* ------------------------------------------------------------------------
NewNode(res) ==
    [ID |-> res.ID, Type |-> res.Type, Name |-> res.Name, Provider |-> res.Provider,
     ResourceType |-> GetResourceType(res.Type), Attributes |-> res.Attributes]

MapPut(m, key, val) == [k \in DOMAIN m \cup {key} |-> IF k = key THEN val ELSE m[k]]

edgeExists(es, from, to) == \E k \in 1..Len(es) : es[k].From = from /\ es[k].To = to

\* addEdge without the edgeExists test
addEdgeNoCheck(es, from, to, relationship) ==
    Append(es, [From |-> from, To |-> to, Relationship |-> relationship])

addEdge(es, from, to, relationship) ==
    IF edgeExists(es, from, to) THEN es
    ELSE Append(es, [From |-> from, To |-> to, Relationship |-> relationship])

inferRelationship(from, to) ==
    IF from.ResourceType = "Security" /\ to.ResourceType = "Compute" THEN "protects"
    ELSE IF from.ResourceType = "Security" /\ to.ResourceType = "LoadBalancer" THEN "filters"
    ELSE IF from.ResourceType = "LoadBalancer" /\ to.ResourceType = "Compute" THEN "routes_to"
    ELSE IF from.ResourceType = "Network" THEN "contains"
    ELSE IF from.ResourceType = "Compute" /\ to.ResourceType = "Storage" THEN "uses_storage"
    ELSE IF from.ResourceType = "Compute" /\ to.ResourceType = "Database" THEN "connects_to_db"
    ELSE "depends_on"

\* the type assertion v.(string) on an element of a list attribute
IsStringValue(v) == \A k \in 1..Len(NumberIDs) : NumberIDs[k] # v

getAttributeString(attrs, key) == IF attrs[key] = Absent THEN "" ELSE attrs[key]

\* buildAttributeIndex: for every string attribute value the node written last wins; the
\* iteration order of g.Nodes decides which one that is when two nodes share a value
AttrValues(ns, attrKey) == {ns[id].Attributes[attrKey] : id \in DOMAIN ns} \ {Absent}

AttributeIndexes(ns) ==
    {index \in [StringAttrKeys -> UNION {[AttrValues(ns, k) -> DOMAIN ns] : k \in StringAttrKeys}] :
        \A k \in StringAttrKeys :
            /\ DOMAIN index[k] = AttrValues(ns, k)
            /\ \A v \in DOMAIN index[k] : ns[index[k][v]].Attributes[k] = v}

\* the nodes a linear scan of g.Nodes can return for this value
ScanHits(ns, attrKey, attrValue) ==
    {id \in DOMAIN ns : getAttributeString(ns[id].Attributes, attrKey) = attrValue}

\* findNodeByAttributeValue: the nodes one call can return. The index first; then the scan
\* over g.Nodes, which draws its own iteration order at every call and returns its first match
findNodeByAttributeValue(ns, index, attrKey, attrValue) ==
    IF attrValue \in DOMAIN index[attrKey] THEN {index[attrKey][attrValue]}
    ELSE IF ScanHits(ns, attrKey, attrValue) # {} THEN ScanHits(ns, attrKey, attrValue)
    ELSE {Nil}

IsAssociationNode(n) ==
    n.Provider = "azure" /\ n.Type = "azurerm_subnet_network_security_group_association"

IsInstanceNode(n) == n.Provider = "aws" /\ n.Type = "aws_instance"

IsDropletNode(n) == n.Provider = "digitalocean" /\ n.Type = "digitalocean_droplet"

IsFirewallNode(n) == n.Provider = "digitalocean" /\ n.Type = "digitalocean_firewall"

IsLoadBalancerNode(n) == n.Provider = "digitalocean" /\ n.Type = "digitalocean_loadbalancer"

\* the nodes for which an iteration of detectImplicitConnections can add an edge
ImplicitSources(ns) ==
    {id \in DOMAIN ns : IsAssociationNode(ns[id]) \/ IsInstanceNode(ns[id])
                          \/ IsDropletNode(ns[id]) \/ IsLoadBalancerNode(ns[id])}

Firewalls(ns) == {id \in DOMAIN ns : IsFirewallNode(ns[id])}

\* addEdge(src -> dst) for every listed id that resolves to a node (src or dst is the visited
\* node): the edge lists the loop can produce, one lookup per listed id
RECURSIVE LinkListed(_, _, _, _, _, _, _)
LinkListed(ns, index, es, ids, id, inbound, relationship) ==
    IF ids = <<>> THEN {es}
    ELSE LET es1(other) == IF other = Nil THEN es
                           ELSE IF inbound THEN addEdge(es, other, id, relationship)
                           ELSE addEdge(es, id, other, relationship)
         IN IF ~IsStringValue(Head(ids))
            THEN LinkListed(ns, index, es, Tail(ids), id, inbound, relationship)
            ELSE UNION {LinkListed(ns, index, es1(other), Tail(ids), id, inbound, relationship) :
                           other \in findNodeByAttributeValue(ns, index, "id", Head(ids))}

\* the firewall loop with the edge drawn from the droplet to the firewall
RECURSIVE LinkFirewallsReversed(_, _, _, _, _)
LinkFirewallsReversed(ns, es, fws, id, dropletID) ==
    IF fws = <<>> THEN es
    ELSE LET fw == Head(fws)
             listed == \E k \in 1..Len(ns[fw].Attributes.droplet_ids) :
                          /\ IsStringValue(ns[fw].Attributes.droplet_ids[k])
                          /\ ns[fw].Attributes.droplet_ids[k] = dropletID
             es1 == IF listed THEN addEdge(es, id, fw, "protects") ELSE es
         IN LinkFirewallsReversed(ns, es1, Tail(fws), id, dropletID)

\* the firewalls, in the order this droplet's inner loop meets them, that list the droplet
RECURSIVE LinkFirewalls(_, _, _, _, _)
LinkFirewalls(ns, es, fws, id, dropletID) ==
    IF fws = <<>> THEN es
    ELSE LET fw == Head(fws)
             listed == \E k \in 1..Len(ns[fw].Attributes.droplet_ids) :
                          /\ IsStringValue(ns[fw].Attributes.droplet_ids[k])
                          /\ ns[fw].Attributes.droplet_ids[k] = dropletID
             es1 == IF listed THEN addEdge(es, fw, id, "protects") ELSE es
         IN LinkFirewalls(ns, es1, Tail(fws), id, dropletID)

\* one iteration of the loop of detectImplicitConnections, for node id: the edge lists it
\* can leave behind
VisitImplicit(ns, index, es, id, fwOrder) ==
    LET n == ns[id]
        association(e) ==
            IF IsAssociationNode(n)
            THEN {IF subnetNode # Nil /\ nsgNode # Nil
                  THEN addEdge(e, nsgNode, subnetNode, "protects") ELSE e :
                     <<subnetNode, nsgNode>> \in
                        findNodeByAttributeValue(ns, index, "id", getAttributeString(n.Attributes, "subnet_id"))
                        \X findNodeByAttributeValue(ns, index, "id",
                              getAttributeString(n.Attributes, "network_security_group_id"))}
            ELSE {e}
        instance(e) ==
            IF IsInstanceNode(n)
            THEN LinkListed(ns, index, e, n.Attributes.vpc_security_group_ids, id, TRUE, "protects")
            ELSE {e}
        droplet(e) ==
            IF IsDropletNode(n) /\ getAttributeString(n.Attributes, "id") # ""
            THEN LinkFirewalls(ns, e, fwOrder, id, getAttributeString(n.Attributes, "id"))
            ELSE e
        loadBalancer(e) ==
            IF IsLoadBalancerNode(n)
            THEN LinkListed(ns, index, e, n.Attributes.droplet_ids, id, FALSE, "routes_to")
            ELSE {e}
    IN UNION {loadBalancer(droplet(e2)) : e2 \in UNION {instance(e1) : e1 \in association(es)}}

\* the edge lists one call of detectImplicitConnections can produce when the outer loop
\* visits the nodes in this order
RECURSIVE detectImplicitConnections(_, _, _, _, _)
detectImplicitConnections(ns, index, es, order, fwOrders) ==
    IF order = <<>> THEN {es}
    ELSE UNION {detectImplicitConnections(ns, index, e, Tail(order), fwOrders) :
                   e \in VisitImplicit(ns, index, es, Head(order), fwOrders[Head(order)])}

\* the dependency loop without the nil test on toNode
RECURSIVE AddDependenciesUnchecked(_, _, _, _)
AddDependenciesUnchecked(ns, es, from, deps) ==
    IF deps = <<>> THEN es
    ELSE LET rel == IF Head(deps) \in DOMAIN ns THEN inferRelationship(ns[from], ns[Head(deps)])
                    ELSE "depends_on"
         IN AddDependenciesUnchecked(ns, addEdge(es, from, Head(deps), rel), from, Tail(deps))

\* the dependency loop leaving at the first entry that names no node, instead of skipping it
RECURSIVE AddDependenciesStopAtUnknown(_, _, _, _)
AddDependenciesStopAtUnknown(ns, es, from, deps) ==
    IF deps = <<>> THEN es
    ELSE IF Head(deps) \notin DOMAIN ns THEN es
    ELSE AddDependenciesStopAtUnknown(ns,
            addEdge(es, from, Head(deps), inferRelationship(ns[from], ns[Head(deps)])), from, Tail(deps))

\* the explicit edges of one resource: one addEdge per Dependencies entry that names a node
RECURSIVE AddDependencies(_, _, _, _)
AddDependencies(ns, es, from, deps) ==
    IF deps = <<>> THEN es
    ELSE LET es1 == IF Head(deps) \in DOMAIN ns
                    THEN addEdge(es, from, Head(deps), inferRelationship(ns[from], ns[Head(deps)]))
                    ELSE es
         IN AddDependencies(ns, es1, from, Tail(deps))

\* ------------------------------------------------------------------------
\* State
\* ------------------------------------------------------------------------
VARIABLES
    resources,       \* the parsed resource list of the request
    direction,       \* cfg.Direction, Nil until the request reads it
    format,          \* strings.ToLower(opts.Format), Nil until the request reads it
    cancelled,       \* ctx.Done() is closed
    pc,              \* position of the request in Generate / BuildGraph / CalculateImprovedLayout
    idx,             \* index of the resource the current loop of BuildGraph is at
    nodes,           \* Graph.Nodes: ID -> Node
    attributeIndex,  \* Graph.attributeIndex
    edges,           \* Graph.Edges
    implicitRan,     \* detectImplicitConnections was called
    params,          \* nodeWidth, nodeHeight, hSpacing, vSpacing of the layout call (pixels)
    layers,          \* layers built by assignLayersWithGrouping, reordered by minimizeCrossings
    processed,       \* processed map of assignLayersWithGrouping
    currentLayer,    \* currentLayer of assignLayersWithGrouping (its order is not observable)
    layerIdx,        \* layerIdx of assignLayersWithGrouping
    layoutNodes,     \* Layout.Nodes: ID -> NodeLayout (lengths in Unit-ths of a pixel)
    layoutSize,      \* Layout.Width, Layout.Height
    layoutEdges,     \* Layout.Edges
    outcome,         \* what Generate returned: "pending", "error" or "ok"
    written,         \* the diagram was written to the output path
    resourceCount,   \* GenerateResult.ResourceCount
    run,             \* number of the request on this input
    firstRun         \* layout of the first request on this input

vars == <<resources, direction, format, cancelled, pc, idx, nodes, attributeIndex, edges, implicitRan, params,
          layers, processed, currentLayer, layerIdx, layoutNodes, layoutSize, layoutEdges,
          outcome, written, resourceCount, run, firstRun>>

inputVars == <<resources, direction, format>>

graphVars == <<nodes, attributeIndex, edges, implicitRan>>

layoutVars == <<params, layers, processed, currentLayer, layerIdx, layoutNodes, layoutSize,
                layoutEdges>>

resultVars == <<outcome, written, resourceCount>>

runVars == <<run, firstRun>>

NoParams == [nodeWidth |-> 0, nodeHeight |-> 0, hSpacing |-> 0, vSpacing |-> 0]

ExportParams ==
    [nodeWidth |-> ExportNodeWidth, nodeHeight |-> ExportNodeHeight,
     hSpacing |-> ExportHSpacing, vSpacing |-> ExportVSpacing]

EmptyIndex == [k \in StringAttrKeys |-> EmptyMap]

\* no earlier request on this input
NoRun == [ok |-> FALSE, layers |-> <<>>, nodes |-> EmptyMap, edges |-> <<>>]

\* a fresh request: nothing built, nothing laid out
FreshRequest ==
    /\ cancelled = FALSE
    /\ pc = "generate"
    /\ idx = 0
    /\ nodes = EmptyMap
    /\ attributeIndex = EmptyIndex
    /\ edges = <<>>
    /\ implicitRan = FALSE
    /\ params = NoParams
    /\ layers = <<>>
    /\ processed = {}
    /\ currentLayer = {}
    /\ layerIdx = 0
    /\ layoutNodes = EmptyMap
    /\ layoutSize = [Width |-> 0, Height |-> 0]
    /\ layoutEdges = <<>>
    /\ outcome = "pending"
    /\ written = FALSE
    /\ resourceCount = 0

Init ==
    /\ resources \in Inputs
    /\ direction = Nil
    /\ format = Nil
    /\ FreshRequest
    /\ run = 1
    /\ firstRun = NoRun

\* ------------------------------------------------------------------------
\* The caller's context: cancellation may arrive at any point up to the check of RenderDiagram,
\* the last place where the request looks at the context
\* ------------------------------------------------------------------------
Cancel ==
    /\ ~cancelled
    /\ pc \in {"generate", "nodes", "edges", "built"}
    /\ cancelled' = TRUE
    /\ UNCHANGED <<pc, idx>>
    /\ UNCHANGED <<inputVars, graphVars, layoutVars, resultVars, runVars>>

\* ------------------------------------------------------------------------
\* DiagramGenerator.Generate up to the call of BuildGraph
\* ------------------------------------------------------------------------
Fail ==
    /\ pc' = "done"
    /\ outcome' = "error"
    /\ UNCHANGED <<written, resourceCount>>

\* ValidateOutputPath or ValidateInputPath rejects a path of the request, or the parser
\* returns an error: Generate returns it before any graph is built
GenerateInvalidInput ==
    /\ pc = "generate"
    /\ Fail
    /\ UNCHANGED <<cancelled, idx>>
    /\ UNCHANGED <<inputVars, graphVars, layoutVars, runVars>>

\* parseResources returns ctx.Err() on a cancelled context
GenerateCancelled ==
    /\ pc = "generate"
    /\ cancelled
    /\ Fail
    /\ UNCHANGED <<cancelled, idx>>
    /\ UNCHANGED <<inputVars, graphVars, layoutVars, runVars>>

\* "no resources found to diagram"
GenerateNoResources ==
    /\ pc = "generate"
    /\ ~cancelled
    /\ Len(resources) = 0
    /\ Fail
    /\ UNCHANGED <<cancelled, idx>>
    /\ UNCHANGED <<inputVars, graphVars, layoutVars, runVars>>

GenerateBuild ==
    /\ pc = "generate"
    /\ ~cancelled
    /\ Len(resources) > 0
    /\ pc' = "nodes"
    /\ idx' = 1
    /\ UNCHANGED cancelled
    /\ UNCHANGED <<inputVars, graphVars, layoutVars, resultVars, runVars>>

\* ------------------------------------------------------------------------
\* graph.BuildGraph
\* ------------------------------------------------------------------------
\* node loop, one resource: the context check, the exclusion predicate, the node
CreateNode ==
    /\ pc = "nodes"
    /\ idx <= Len(resources)
    /\ ~cancelled
    /\ nodes' = IF ShouldIncludeInDiagram(resources[idx])
                THEN MapPut(nodes, resources[idx].ID, NewNode(resources[idx]))
                ELSE nodes
    /\ idx' = idx + 1
    /\ UNCHANGED <<cancelled, pc, attributeIndex, edges, implicitRan>>
    /\ UNCHANGED <<inputVars, layoutVars, resultVars, runVars>>

\* node loop: ctx.Done() is closed, BuildGraph returns the graph built so far
CreateNodeCancelled ==
    /\ pc = "nodes"
    /\ idx <= Len(resources)
    /\ cancelled
    /\ pc' = "built"
    /\ UNCHANGED <<cancelled, idx>>
    /\ UNCHANGED <<inputVars, graphVars, layoutVars, resultVars, runVars>>

BuildAttributeIndex ==
    /\ pc = "nodes"
    /\ idx > Len(resources)
    /\ attributeIndex' \in AttributeIndexes(nodes)
    /\ pc' = "edges"
    /\ idx' = 1
    /\ UNCHANGED <<cancelled, nodes, edges, implicitRan>>
    /\ UNCHANGED <<inputVars, layoutVars, resultVars, runVars>>

\* dependency loop, one resource: the context check, then an edge per resolvable dependency
AddExplicitEdges ==
    /\ pc = "edges"
    /\ idx <= Len(resources)
    /\ ~cancelled
    /\ edges' = IF resources[idx].ID \in DOMAIN nodes
                THEN AddDependencies(nodes, edges, resources[idx].ID, resources[idx].Dependencies)
                ELSE edges
    /\ idx' = idx + 1
    /\ UNCHANGED <<cancelled, pc, nodes, attributeIndex, implicitRan>>
    /\ UNCHANGED <<inputVars, layoutVars, resultVars, runVars>>

AddExplicitEdgesCancelled ==
    /\ pc = "edges"
    /\ idx <= Len(resources)
    /\ cancelled
    /\ pc' = "built"
    /\ UNCHANGED <<cancelled, idx>>
    /\ UNCHANGED <<inputVars, graphVars, layoutVars, resultVars, runVars>>

\* the dependency loop is over; detectImplicitConnections runs without looking at the context
DetectImplicit ==
    /\ pc = "edges"
    /\ idx > Len(resources)
    /\ \E order \in Orders(ImplicitSources(nodes)) :
       \E fwOrders \in [ImplicitSources(nodes) -> Orders(Firewalls(nodes))] :
          edges' \in detectImplicitConnections(nodes, attributeIndex, edges, order, fwOrders)
    /\ implicitRan' = TRUE
    /\ pc' = "built"
    /\ UNCHANGED <<cancelled, idx, nodes, attributeIndex>>
    /\ UNCHANGED <<inputVars, layoutVars, resultVars, runVars>>

\* ------------------------------------------------------------------------
\* renderer: assignLayersWithGrouping
\* ------------------------------------------------------------------------
inDegree(es, id) == Cardinality({k \in 1..Len(es) : es[k].To = id})

outEdges(es, id) == {es[k].To : k \in {j \in 1..Len(es) : es[j].From = id}}

inEdges(es, id) == {es[k].From : k \in {j \in 1..Len(es) : es[j].To = id}}

\* the possible values of currentLayer before the loop: the roots; without roots up to
\* SeedCap security or network nodes, whichever the map iteration meets first; else any node
\* SeedLayers without the limit on the Security/Network nodes taken when there is no root
SeedLayersUncapped(ns, es) ==
    LET roots == {id \in DOMAIN ns : inDegree(es, id) = 0}
        infra == {id \in DOMAIN ns : ns[id].ResourceType \in {"Security", "Network"}}
    IN IF roots # {} THEN {roots}
       ELSE IF infra # {} THEN {infra}
            ELSE {{id} : id \in DOMAIN ns}

SeedLayers(ns, es) ==
    LET roots == {id \in DOMAIN ns : inDegree(es, id) = 0}
        infra == {id \in DOMAIN ns : ns[id].ResourceType \in {"Security", "Network"}}
    IN IF roots # {} THEN {roots}
       ELSE IF infra # {}
            THEN {S \in SUBSET infra : Cardinality(S) = Min2(SeedCap, Cardinality(infra))}
            ELSE {{id} : id \in DOMAIN ns}

getResourceTypePriority(rt) ==
    CASE rt = "Network" -> 1
      [] rt = "Security" -> 2
      [] rt = "DNS" -> 3
      [] rt = "Certificate" -> 4
      [] rt = "LoadBalancer" -> 5
      [] rt = "Compute" -> 6
      [] rt = "Container" -> 7
      [] rt = "Database" -> 8
      [] rt = "Storage" -> 9
      [] rt = "CDN" -> 10
      [] rt = "Secret" -> 11
      [] OTHER -> 99

\* the order of Go strings on the names the inputs use
SiblingNames == <<"a", "b", "c", "d", "e", "f", "g", "h", "i", "j", "k", "l", "m", "n">>

NameRank == [name \in Range(SiblingNames) |-> CHOOSE k \in 1..Len(SiblingNames) : SiblingNames[k] = name]

\* the less function of the sort in groupByResourceType
GroupLess(ns, a, b) ==
    IF ns[a].ResourceType # ns[b].ResourceType
    THEN getResourceTypePriority(ns[a].ResourceType) < getResourceTypePriority(ns[b].ResourceType)
    ELSE NameRank[ns[a].Name] < NameRank[ns[b].Name]

\* groupByResourceType: the IDs that are nodes, sorted; sort.Slice is not stable and the IDs
\* arrive in map order, so nodes with equal keys may come out in any order
groupByResourceType(ns, ids) ==
    LET known == ids \cap DOMAIN ns
    IN {p \in Orders(known) : \A k \in 1..(Cardinality(known) - 1) : ~GroupLess(ns, p[k + 1], p[k])}

\* the next layer without the test that all parents are processed
NextLayerAnyParent(es, cur, proc) ==
    {c \in UNION {outEdges(es, id) : id \in cur} : c \notin proc}

\* the next layer without the test that the child is unprocessed
NextLayerRevisit(es, cur, proc) ==
    {c \in UNION {outEdges(es, id) : id \in cur} : inEdges(es, c) \subseteq proc}

\* the next layer: unprocessed children of the current layer whose parents are all processed
NextLayer(es, cur, proc) ==
    {c \in UNION {outEdges(es, id) : id \in cur} : c \notin proc /\ inEdges(es, c) \subseteq proc}

\* ------------------------------------------------------------------------
\* renderer: minimizeCrossings / reorderLayerByBarycenter
\* ------------------------------------------------------------------------
\* the k-th call of reorderLayerByBarycenter made by minimizeCrossings on n layers
SweepsPerPass(n) == 2 * (n - 1)

SweepCall(n, k) ==
    LET within == (k - 1) % SweepsPerPass(n)
    IN IF within < n - 1
       THEN [layerIdx |-> within + 1, forward |-> TRUE]
       ELSE [layerIdx |-> (n - 2) - (within - (n - 1)), forward |-> FALSE]

\* 0-based position of id in a layer
PosIn(layer, id) == (CHOOSE k \in 1..Len(layer) : layer[k] = id /\ \A j \in 1..(k - 1) : layer[j] # id) - 1

RECURSIVE SumPos(_, _)
SumPos(ks, posOf) ==
    IF ks = {} THEN 0
    ELSE LET k == CHOOSE x \in ks : TRUE IN posOf[k] + SumPos(ks \ {k}, posOf)

\* barycenter of the node at 0-based index i of layer li (0-based), as a fraction num/den
Barycenter(ls, es, li, i, forward) ==
    LET nodeID == ls[li + 1][i + 1]
        adjacentLayer == IF forward THEN ls[li] ELSE ls[li + 2]
        connectedID(k) == IF forward /\ es[k].To = nodeID THEN es[k].From
                          ELSE IF ~forward /\ es[k].From = nodeID THEN es[k].To
                          ELSE Nil
        hits == {k \in 1..Len(es) : connectedID(k) # Nil /\ connectedID(k) \in Range(adjacentLayer)}
        posOf == [k \in hits |-> PosIn(adjacentLayer, connectedID(k))]
    IN IF hits # {} THEN [num |-> SumPos(hits, posOf), den |-> Cardinality(hits)]
       ELSE [num |-> i, den |-> 1]

FracLess(a, b) == a.num * b.den < b.num * a.den

\* sort.Slice(positions, less) of reorderLayerByBarycenter, as the Go runtime sorts a slice
\* of up to MaxInsertion + 1 elements: insertion sort up to MaxInsertion elements; for one
\* element more a single round of pattern-defeating quicksort (pivot by median of three,
\* early exit on a sorted slice, partition, insertion sort of both parts). Indexes are
\* 0-based as in the source. Longer slices are outside the model.
positionLess(d, i, j) == FracLess(d[i + 1].position, d[j + 1].position)

swapElements(d, i, j) == [d EXCEPT ![i + 1] = d[j + 1], ![j + 1] = d[i + 1]]

\* the inner loop of insertionSort_func: element j moves left while it is less
RECURSIVE insertLeft(_, _, _)
insertLeft(d, a, j) ==
    IF j > a /\ positionLess(d, j, j - 1) THEN insertLeft(swapElements(d, j, j - 1), a, j - 1) ELSE d

RECURSIVE insertionSortFrom(_, _, _, _)
insertionSortFrom(d, a, b, i) ==
    IF i >= b THEN d ELSE insertionSortFrom(insertLeft(d, a, i), a, b, i + 1)

insertionSort_func(d, a, b) == insertionSortFrom(d, a, b, a + 1)

\* choosePivot_func for 8 <= b - a < 50: the median of three elements and the number of
\* swaps the three order2 steps count
choosePivot_func(d, a, b) ==
    LET l == b - a
        i0 == a + (l \div 4) * 1
        j0 == a + (l \div 4) * 2
        k0 == a + (l \div 4) * 3
        s1 == positionLess(d, j0, i0)
        a1 == IF s1 THEN j0 ELSE i0
        b1 == IF s1 THEN i0 ELSE j0
        s2 == positionLess(d, k0, b1)
        b2 == IF s2 THEN k0 ELSE b1
        s3 == positionLess(d, b2, a1)
        b3 == IF s3 THEN a1 ELSE b2
    IN [pivot |-> b3,
        swaps |-> (IF s1 THEN 1 ELSE 0) + (IF s2 THEN 1 ELSE 0) + (IF s3 THEN 1 ELSE 0)]

\* partialInsertionSort_func for b - a < 50: it changes nothing and reports whether the
\* slice is sorted
partialInsertionSort_func(d, a, b) == \A i \in (a + 1)..(b - 1) : ~positionLess(d, i, i - 1)

RECURSIVE scanUp(_, _, _, _)
scanUp(d, a, i, j) == IF i <= j /\ positionLess(d, i, a) THEN scanUp(d, a, i + 1, j) ELSE i

RECURSIVE scanDown(_, _, _, _)
scanDown(d, a, i, j) == IF i <= j /\ ~positionLess(d, j, a) THEN scanDown(d, a, i, j - 1) ELSE j

\* the loop of partition_func from the indexes i and j on; the pivot is at index a
RECURSIVE partitionLoop(_, _, _, _)
partitionLoop(d, a, i, j) ==
    LET i1 == scanUp(d, a, i, j)
        j1 == scanDown(d, a, i1, j)
    IN IF i1 > j1 THEN [data |-> swapElements(d, j1, a), mid |-> j1]
       ELSE partitionLoop(swapElements(d, i1, j1), a, i1 + 1, j1 - 1)

partition_func(d, a, b, pivot) == partitionLoop(swapElements(d, a, pivot), a, a + 1, b - 1)

\* pdqsort_func on the whole slice
pdqsort_func(d) ==
    LET n == Len(d)
        chosen == choosePivot_func(d, 0, n)
        parted == partition_func(d, 0, n, chosen.pivot)
    IN CASE n <= MaxInsertion -> insertionSort_func(d, 0, n)
         [] n = MaxInsertion + 1 ->
              IF chosen.swaps = 0 /\ partialInsertionSort_func(d, 0, n) THEN d
              ELSE insertionSort_func(insertionSort_func(parted.data, 0, parted.mid), parted.mid + 1, n)

\* reorderLayerByBarycenter: the layers after the call
reorderLayerByBarycenter(ls, es, li, forward) ==
    IF li < 0 \/ li >= Len(ls) THEN {ls}
    ELSE IF forward /\ li = 0 THEN {ls}
    ELSE IF ~forward /\ li = Len(ls) - 1 THEN {ls}
    ELSE LET layer == ls[li + 1]
             positions == [i \in 1..Len(layer) |->
                             [id |-> layer[i], position |-> Barycenter(ls, es, li, i - 1, forward)]]
             sorted == pdqsort_func(positions)
         IN {[ls EXCEPT ![li + 1] = [k \in 1..Len(layer) |-> sorted[k].id]]}

\* the arrangements possible after the sweep calls k + 1 .. of minimizeCrossings, from those
\* possible after its first k calls
RECURSIVE SweepsFrom(_, _, _)
SweepsFrom(arrangements, es, k) ==
    LET n == Len(CHOOSE ls \in arrangements : TRUE)
    IN IF k >= CrossingPasses * SweepsPerPass(n) THEN arrangements
       ELSE LET call == SweepCall(n, k + 1)
            IN SweepsFrom(UNION {reorderLayerByBarycenter(ls, es, call.layerIdx, call.forward) :
                                    ls \in arrangements}, es, k + 1)

\* minimizeCrossings: the layer orders it can leave
minimizeCrossings(ls, es) == SweepsFrom({ls}, es, 0)

\* ------------------------------------------------------------------------
\* renderer: assignCoordinatesWithSpacing
\* ------------------------------------------------------------------------
\* hSpacing * 1.5 and vSpacing * 1.5 of CalculateImprovedLayout, in Unit-ths of a pixel
Enhanced(spacing) == (spacing * 3 * Unit) \div 2

RECURSIVE MaxOver(_, _)
MaxOver(S, floor) ==
    IF S = {} THEN floor
    ELSE LET x == CHOOSE v \in S : TRUE IN MaxOver(S \ {x}, Max2(floor, x))

\* the layout of the node at 0-based index nodeIdx of layer li (0-based)
PlaceNode(ls, dir, P, li, nodeIdx) ==
    LET W == P.nodeWidth * Unit
        H == P.nodeHeight * Unit
        HS == Enhanced(P.hSpacing)
        VS == Enhanced(P.vSpacing)
        maxNodesInLayer == MaxOver({Len(ls[k]) : k \in 1..Len(ls)}, 0)
        n == Len(ls[li + 1])
        layerWidth == (n - 1) * HS + n * W
        startOffset == (maxNodesInLayer * W + (maxNodesInLayer - 1) * HS - layerWidth) \div 2
        x == CASE dir = "LR" -> li * (W + HS)
               [] dir = "RL" -> (Len(ls) - 1 - li) * (W + HS)
               [] OTHER -> startOffset + nodeIdx * (W + HS)
        y == CASE dir = "LR" -> startOffset + nodeIdx * (H + VS)
               [] dir = "RL" -> startOffset + nodeIdx * (H + VS)
               [] dir = "BT" -> (Len(ls) - 1 - li) * (H + VS)
               [] OTHER -> li * (H + VS)
    IN [Layer |-> li, X |-> x, Y |-> y, Width |-> W, Height |-> H]

\* Layout.Nodes after the double loop: a later write to the same ID replaces an earlier one
assignCoordinatesWithSpacing(ls, dir, P) ==
    LET places == {<<li, ni>> \in (0..(Len(ls) - 1)) \X (0..(MaxOver({Len(ls[k]) : k \in 1..Len(ls)}, 0) - 1)) :
                      ni < Len(ls[li + 1])}
        placesOf(id) == {pl \in places : ls[pl[1] + 1][pl[2] + 1] = id}
        last(id) == CHOOSE pl \in placesOf(id) :
                        \A other \in placesOf(id) :
                            other[1] < pl[1] \/ (other[1] = pl[1] /\ other[2] <= pl[2])
    IN [id \in UNION {Range(ls[k]) : k \in 1..Len(ls)} |-> PlaceNode(ls, dir, P, last(id)[1], last(id)[2])]

\* LayoutDimensions taken from the node positions alone, without node sizes and margin
LayoutDimensionsOfPositions(lay, P) ==
    [Width |-> MaxOver({lay[id].X : id \in DOMAIN lay}, 0),
     Height |-> MaxOver({lay[id].Y : id \in DOMAIN lay}, 0)]

\* Layout.Width and Layout.Height of assignCoordinatesWithSpacing
LayoutDimensions(lay, P) ==
    [Width |-> MaxOver({lay[id].X + lay[id].Width : id \in DOMAIN lay}, 0) + Enhanced(P.hSpacing),
     Height |-> MaxOver({lay[id].Y + lay[id].Height : id \in DOMAIN lay}, 0) + Enhanced(P.vSpacing)]

\* ------------------------------------------------------------------------
\* renderer: resolveOverlaps
\* ------------------------------------------------------------------------
nodesOverlap(n1, n2) ==
    LET margin == OverlapMargin * Unit
    IN ~(\/ n1.X + n1.Width + margin < n2.X
         \/ n2.X + n2.Width + margin < n1.X
         \/ n1.Y + n1.Height + margin < n2.Y
         \/ n2.Y + n2.Height + margin < n1.Y)

\* the largest whole number between lo and hi whose square is at most n: math.Sqrt(n) when n
\* is a perfect square, which is the only use separateNodes makes of it
RECURSIVE SqrtBetween(_, _, _)
SqrtBetween(n, lo, hi) ==
    IF lo >= hi THEN lo
    ELSE LET mid == (lo + hi + 1) \div 2
         IN IF mid * mid <= n THEN SqrtBetween(n, mid, hi) ELSE SqrtBetween(n, lo, mid - 1)

\* separateNodes: n2 moved by distance along the vector from n1 to n2. Positions are whole
\* multiples of a Unit-th of a pixel, so the move is defined where the code's float64 result
\* is one too: the two positions share a coordinate, or dx*dx + dy*dy is a perfect square
\* whose root divides both products. No other case has a value here, and the layouts
\* explored keep to these cases.
separateNodes(n1, n2, distance) ==
    LET dx == n2.X - n1.X
        dy == n2.Y - n1.Y
        root == SqrtBetween(dx * dx + dy * dy, 0, Abs(dx) + Abs(dy))
        length == CASE dy = 0 -> Abs(dx)
                    [] dx = 0 /\ dy # 0 -> Abs(dy)
                    [] dx # 0 /\ dy # 0 /\ root * root = dx * dx + dy * dy -> root
        dist == IF length < Unit THEN Unit ELSE length
        moveX == CASE (dx * distance) % dist = 0 -> (dx * distance) \div dist
        moveY == CASE (dy * distance) % dist = 0 -> (dy * distance) \div dist
    IN [n2 EXCEPT !.X = n2.X + moveX, !.Y = n2.Y + moveY]

\* the pairs i < j of the double loop of resolveOverlaps, from pair <<i, j>> on
RECURSIVE SeparatePairs(_, _, _, _, _)
SeparatePairs(lay, order, i, j, distance) ==
    IF i > Len(order) THEN lay
    ELSE IF j > Len(order) THEN SeparatePairs(lay, order, i + 1, i + 2, distance)
    ELSE LET a == order[i]
             b == order[j]
             lay1 == IF nodesOverlap(lay[a], lay[b])
                     THEN [lay EXCEPT ![b] = separateNodes(lay[a], lay[b], distance)]
                     ELSE lay
         IN SeparatePairs(lay1, order, i, j + 1, distance)

\* resolveOverlaps: the possible layouts after the single pass; the slice of nodes is filled
\* in map order. Without any overlap no node moves, whatever the order.
resolveOverlaps(lay, nodeWidth) ==
    IF \A a, b \in DOMAIN lay : a # b => ~nodesOverlap(lay[a], lay[b]) THEN {lay}
    ELSE {SeparatePairs(lay, order, 1, 2, (nodeWidth * Unit) \div 5) : order \in Orders(DOMAIN lay)}

\* ------------------------------------------------------------------------
\* renderer: RouteEdges (which edges get an EdgeLayout)
\* ------------------------------------------------------------------------
\* a float64 quotient a / b of two exact values: a number n/d with d > 0, or what a zero
\* divisor gives (+Inf, -Inf, NaN)
Quot(a, b) ==
    IF b > 0 THEN [k |-> "num", n |-> a, d |-> b]
    ELSE IF b < 0 THEN [k |-> "num", n |-> -a, d |-> -b]
    ELSE IF a > 0 THEN [k |-> "pinf", n |-> 0, d |-> 1]
    ELSE IF a < 0 THEN [k |-> "ninf", n |-> 0, d |-> 1]
    ELSE [k |-> "nan", n |-> 0, d |-> 1]

WholeNum(a) == [k |-> "num", n |-> a, d |-> 1]

\* x <= y on float64 values: FALSE as soon as one is NaN
FloatLeq(x, y) ==
    IF x.k = "nan" \/ y.k = "nan" THEN FALSE
    ELSE IF x.k = "ninf" \/ y.k = "pinf" THEN TRUE
    ELSE IF x.k = "pinf" \/ y.k = "ninf" THEN FALSE
    ELSE x.n * y.d <= y.n * x.d

\* math.Max and math.Min: the infinity cases come before the NaN case
FloatMax(x, y) ==
    IF x.k = "pinf" \/ y.k = "pinf" THEN [k |-> "pinf", n |-> 0, d |-> 1]
    ELSE IF x.k = "nan" \/ y.k = "nan" THEN [k |-> "nan", n |-> 0, d |-> 1]
    ELSE IF FloatLeq(x, y) THEN y ELSE x

FloatMin(x, y) ==
    IF x.k = "ninf" \/ y.k = "ninf" THEN [k |-> "ninf", n |-> 0, d |-> 1]
    ELSE IF x.k = "nan" \/ y.k = "nan" THEN [k |-> "nan", n |-> 0, d |-> 1]
    ELSE IF FloatLeq(x, y) THEN x ELSE y

\* math.Sqrt(dx*dx + dy*dy) < limit, for a limit in Unit-ths of a pixel
Closer(dx, dy, limit) == Abs(dx) < limit /\ Abs(dy) < limit /\ dx * dx + dy * dy < limit * limit

\* the slice edgesByTarget[to] of RouteEdges
TargetEdges(es, to) == SelectSeq(es, LAMBDA e : e.To = to)

\* connectionOffset of the edge from -> to in RouteEdges
ConnectionOffset(es, from, to) ==
    LET targetEdges == TargetEdges(es, to)
        edgeIndex == (CHOOSE i \in 1..Len(targetEdges) : targetEdges[i].From = from) - 1
        spacing == ConnectionSpacing * Unit
    IN IF Len(targetEdges) > 1
       THEN edgeIndex * spacing - ((Len(targetEdges) - 1) * spacing) \div 2
       ELSE 0

\* getConnectionPointsWithOffset with the end anchor on the border of the target box, without
\* the arrow clearance
getConnectionPointsOnBorder(dir, from, to, connectionOffset) ==
    LET fromCenter == [X |-> from.X + from.Width \div 2, Y |-> from.Y + from.Height \div 2]
        toCenter == [X |-> to.X + to.Width \div 2, Y |-> to.Y + to.Height \div 2]
        vertical == dir \in {"TB", "BT"}
        before == IF vertical THEN to.Y > from.Y + from.Height ELSE to.X > from.X + from.Width
        after == IF vertical THEN to.Y + to.Height < from.Y ELSE to.X + to.Width < from.X
        lower == IF vertical THEN toCenter.X > fromCenter.X ELSE toCenter.Y > fromCenter.Y
        \* TRUE when the anchors are on the top and bottom sides of the boxes
        topBottom == (vertical /\ (before \/ after)) \/ (~vertical /\ ~(before \/ after))
        first == IF before \/ after THEN before ELSE lower
    IN IF topBottom
       THEN [start |-> [X |-> fromCenter.X, Y |-> IF first THEN from.Y + from.Height ELSE from.Y],
             end |-> [X |-> toCenter.X + connectionOffset,
                      Y |-> IF first THEN to.Y ELSE to.Y + to.Height]]
       ELSE [start |-> [X |-> IF first THEN from.X + from.Width ELSE from.X, Y |-> fromCenter.Y],
             end |-> [X |-> IF first THEN to.X ELSE to.X + to.Width,
                      Y |-> toCenter.Y + (IF vertical THEN 0 ELSE connectionOffset)]]

\* getConnectionPointsWithOffset for the four directions the provider documents; the
\* angle-based anchors of any other direction string are not modelled
getConnectionPointsWithOffset(dir, from, to, connectionOffset) ==
    LET fromCenter == [X |-> from.X + from.Width \div 2, Y |-> from.Y + from.Height \div 2]
        toCenter == [X |-> to.X + to.Width \div 2, Y |-> to.Y + to.Height \div 2]
        arrowClearance == ArrowClearance * Unit
        bottomToTop == [start |-> [X |-> fromCenter.X, Y |-> from.Y + from.Height],
                        end |-> [X |-> toCenter.X + connectionOffset, Y |-> to.Y - arrowClearance]]
        topToBottom == [start |-> [X |-> fromCenter.X, Y |-> from.Y],
                        end |-> [X |-> toCenter.X + connectionOffset,
                                 Y |-> to.Y + to.Height + arrowClearance]]
    IN CASE dir \in {"TB", "BT"} ->
              IF to.Y > from.Y + from.Height THEN bottomToTop
              ELSE IF to.Y + to.Height < from.Y THEN topToBottom
              ELSE IF toCenter.X > fromCenter.X
                   THEN [start |-> [X |-> from.X + from.Width, Y |-> fromCenter.Y],
                         end |-> [X |-> to.X - arrowClearance, Y |-> toCenter.Y]]
                   ELSE [start |-> [X |-> from.X, Y |-> fromCenter.Y],
                         end |-> [X |-> to.X + to.Width + arrowClearance, Y |-> toCenter.Y]]
         [] dir \in {"LR", "RL"} ->
              IF to.X > from.X + from.Width
              THEN [start |-> [X |-> from.X + from.Width, Y |-> fromCenter.Y],
                    end |-> [X |-> to.X - arrowClearance, Y |-> toCenter.Y + connectionOffset]]
              ELSE IF to.X + to.Width < from.X
              THEN [start |-> [X |-> from.X, Y |-> fromCenter.Y],
                    end |-> [X |-> to.X + to.Width + arrowClearance, Y |-> toCenter.Y + connectionOffset]]
              ELSE IF toCenter.Y > fromCenter.Y THEN bottomToTop
              ELSE topToBottom

\* lineIntersectsRect for the segment p1 p2 and the rectangle (x1, y1) .. (x2, y2)
lineIntersectsRect(p1, p2, x1, y1, x2, y2) ==
    LET minX == Min2(p1.X, p2.X)
        maxX == Max2(p1.X, p2.X)
        minY == Min2(p1.Y, p2.Y)
        maxY == Max2(p1.Y, p2.Y)
        dx == p2.X - p1.X
        dy == p2.Y - p1.Y
        t1 == Quot(x1 - p1.X, dx)
        t2 == Quot(x2 - p1.X, dx)
        t3 == Quot(y1 - p1.Y, dy)
        t4 == Quot(y2 - p1.Y, dy)
        tmin == FloatMax(FloatMin(t1, t2), FloatMin(t3, t4))
        tmax == FloatMin(FloatMax(t1, t2), FloatMax(t3, t4))
    IN IF maxX < x1 \/ minX > x2 \/ maxY < y1 \/ minY > y2 THEN FALSE
       ELSE IF dx = 0 /\ dy = 0 THEN p1.X >= x1 /\ p1.X <= x2 /\ p1.Y >= y1 /\ p1.Y <= y2
       ELSE FloatLeq(tmin, tmax) /\ FloatLeq(WholeNum(0), tmax) /\ FloatLeq(tmin, WholeNum(1))

\* wouldIntersectNodes: some node other than the two endpoints lies on the straight connector
wouldIntersectNodes(lay, start, end, fromID, toID) ==
    LET margin == IntersectMargin * Unit
    IN \E id \in DOMAIN lay \ {fromID, toID} :
          lineIntersectsRect(start, end, lay[id].X - margin, lay[id].Y - margin,
                             lay[id].X + lay[id].Width + margin, lay[id].Y + lay[id].Height + margin)

\* number of points of generateBezierCurve between two points (dx2, dy2)/2 apart
BezierPointCount(dx2, dy2) ==
    IF Closer(dx2, dy2, 2 * CurveBelow * Unit) THEN 2 ELSE BezierSteps + 1

\* routeEdgeWithConnection with pathOffset 0 (identifyParallelEdges gives no other offset):
\* the routine that draws the path, and the number of points of the path
routeEdgeWithConnection(lay, dir, fromID, toID, connectionOffset) ==
    LET from == lay[fromID]
        to == lay[toID]
        pts == getConnectionPointsWithOffset(dir, from, to, connectionOffset)
        dx == pts.end.X - pts.start.X
        dy == pts.end.Y - pts.start.Y
        side == 2 * AvoidanceOffset * Unit
        \* twice the vector from start to the waypoint of findAvoidanceWaypoint
        toWay == IF dir \in {"TB", "BT"}
                 THEN [X |-> IF pts.start.X < pts.end.X THEN dx + side ELSE dx - side, Y |-> dy]
                 ELSE [X |-> dx, Y |-> IF pts.start.Y < pts.end.Y THEN dy + side ELSE dy - side]
    IN IF Closer(dx, dy, StraightBelow * Unit)
       THEN [shape |-> "straight", points |-> 2, start |-> pts.start, end |-> pts.end]
       ELSE IF from.Layer = to.Layer
       THEN [shape |-> "orthogonal", points |-> 4, start |-> pts.start, end |-> pts.end]
       ELSE IF wouldIntersectNodes(lay, pts.start, pts.end, fromID, toID)
       THEN [shape |-> "avoidance",
             points |-> BezierPointCount(toWay.X, toWay.Y)
                        + BezierPointCount(2 * dx - toWay.X, 2 * dy - toWay.Y) - 1,
             start |-> pts.start, end |-> pts.end]
       ELSE [shape |-> "curved", points |-> BezierPointCount(2 * dx, 2 * dy),
             start |-> pts.start, end |-> pts.end]

\* RouteEdges: one EdgeLayout per edge whose two endpoints have a NodeLayout, in edge order
RouteEdges(lay, es, dir) ==
    LET routed == SelectSeq(es, LAMBDA e : e.From \in DOMAIN lay /\ e.To \in DOMAIN lay)
    IN [k \in 1..Len(routed) |->
          LET route == routeEdgeWithConnection(lay, dir, routed[k].From, routed[k].To,
                                               ConnectionOffset(es, routed[k].From, routed[k].To))
          IN [From |-> routed[k].From, To |-> routed[k].To, Shape |-> route.shape,
              Points |-> route.points, Start |-> route.start, End |-> route.end]]

\* ------------------------------------------------------------------------
\* renderer.RenderDiagram / ExportDiagram and CalculateImprovedLayout, step by step
\* ------------------------------------------------------------------------
\* the render call without its context check
RenderIgnoresCancel ==
    /\ pc = "built"
    /\ cancelled
    /\ params' = ExportParams
    /\ pc' = "layout"
    /\ UNCHANGED <<cancelled, idx, layers, processed, currentLayer, layerIdx, layoutNodes,
                   layoutSize, layoutEdges>>
    /\ UNCHANGED <<inputVars, graphVars, resultVars, runVars>>

\* the context check at the start of the render call: a cancelled context is returned as the
\* error, which Generate wraps and returns
RenderCancelled ==
    /\ pc = "built"
    /\ cancelled
    /\ Fail
    /\ UNCHANGED <<cancelled, idx>>
    /\ UNCHANGED <<inputVars, graphVars, layoutVars, runVars>>

\* the values of opts.Format of the request; ExportDiagram compares the lower-cased value
Formats == {"svg", "SVG", "png", "PNG", "jpeg", "pdf"}

ToLower(s) == CASE s = "SVG" -> "svg" [] s = "PNG" -> "png" [] OTHER -> s

\* format := strings.ToLower(opts.Format), the same on every request on the same input
LoweredFormats == IF format = Nil THEN {ToLower(f) : f \in Formats} ELSE {format}

\* ExportDiagram on a live context with the format svg: the layout call with its fixed sizes.
\* opts.Format and opts.Direction are read here for the first time, so they are drawn here; a
\* later request on the same input has the same format and direction.
ExportDiagram ==
    /\ pc = "built"
    /\ ~cancelled
    /\ format' \in LoweredFormats
    /\ format' = "svg"
    /\ direction' \in (IF direction = Nil THEN Directions ELSE {direction})
    /\ params' = ExportParams
    /\ pc' = "layout"
    /\ UNCHANGED <<cancelled, idx, layers, processed, currentLayer, layerIdx, layoutNodes,
                   layoutSize, layoutEdges>>
    /\ UNCHANGED <<resources, graphVars, resultVars, runVars>>

\* ExportDiagram on a live context with another format: "unsupported format", before any
\* layout; Generate wraps and returns the error
ExportUnsupportedFormat ==
    /\ pc = "built"
    /\ ~cancelled
    /\ format' \in LoweredFormats
    /\ format' # "svg"
    /\ Fail
    /\ UNCHANGED <<cancelled, idx>>
    /\ UNCHANGED <<resources, direction, graphVars, layoutVars, runVars>>

\* RenderDiagram(ctx, g, outputPath, opts) as Generate calls it: the export with context support
RenderDiagram == RenderCancelled \/ ExportUnsupportedFormat \/ ExportDiagram

\* CalculateImprovedLayout on an empty graph returns the empty layout
LayoutEmpty ==
    /\ pc = "layout"
    /\ DOMAIN nodes = {}
    /\ pc' = "laidout"
    /\ UNCHANGED <<cancelled, idx>>
    /\ UNCHANGED <<inputVars, graphVars, layoutVars, resultVars, runVars>>

\* assignLayersWithGrouping up to its loop: the degrees and the first currentLayer
SeedLayer ==
    /\ pc = "layout"
    /\ DOMAIN nodes # {}
    /\ currentLayer' \in SeedLayers(nodes, edges)
    /\ pc' = "layers"
    /\ UNCHANGED <<cancelled, idx, params, layers, processed, layerIdx, layoutNodes, layoutSize,
                   layoutEdges>>
    /\ UNCHANGED <<inputVars, graphVars, resultVars, runVars>>

\* one iteration of the loop of assignLayersWithGrouping
AssignLayer ==
    /\ pc = "layers"
    /\ Cardinality(processed) < Cardinality(DOMAIN nodes)
    /\ layerIdx < MaxLayers
    /\ \E cur \in (IF currentLayer = {} THEN {{id} : id \in DOMAIN nodes \ processed} ELSE {currentLayer}) :
       \E groupedLayer \in groupByResourceType(nodes, cur) :
          /\ layers' = Append(layers, groupedLayer)
          /\ processed' = processed \cup Range(groupedLayer)
          /\ currentLayer' = NextLayer(edges, cur, processed')
    /\ layerIdx' = layerIdx + 1
    /\ UNCHANGED <<cancelled, pc, idx, params, layoutNodes, layoutSize, layoutEdges>>
    /\ UNCHANGED <<inputVars, graphVars, resultVars, runVars>>

\* the loop of assignLayersWithGrouping ends: all nodes processed, or MaxLayers layers built
LayersDone ==
    /\ pc = "layers"
    /\ ~(Cardinality(processed) < Cardinality(DOMAIN nodes) /\ layerIdx < MaxLayers)
    /\ pc' = "crossings"
    /\ UNCHANGED <<cancelled, idx, params, layers, processed, currentLayer, layerIdx, layoutNodes,
                   layoutSize, layoutEdges>>
    /\ UNCHANGED <<inputVars, graphVars, resultVars, runVars>>

\* minimizeCrossings: all its sweeps
MinimizeCrossings ==
    /\ pc = "crossings"
    /\ layers' \in minimizeCrossings(layers, edges)
    /\ pc' = "coordinates"
    /\ UNCHANGED <<cancelled, idx, params, processed, currentLayer, layerIdx, layoutNodes,
                   layoutSize, layoutEdges>>
    /\ UNCHANGED <<inputVars, graphVars, resultVars, runVars>>

\* assignCoordinatesWithSpacing
AssignCoordinates ==
    /\ pc = "coordinates"
    /\ layoutNodes' = assignCoordinatesWithSpacing(layers, direction, params)
    /\ layoutSize' = LayoutDimensions(layoutNodes', params)
    /\ pc' = "overlaps"
    /\ UNCHANGED <<cancelled, idx, params, layers, processed, currentLayer, layerIdx, layoutEdges>>
    /\ UNCHANGED <<inputVars, graphVars, resultVars, runVars>>

ResolveOverlaps ==
    /\ pc = "overlaps"
    /\ layoutNodes' \in resolveOverlaps(layoutNodes, params.nodeWidth)
    /\ pc' = "route"
    /\ UNCHANGED <<cancelled, idx, params, layers, processed, currentLayer, layerIdx, layoutSize,
                   layoutEdges>>
    /\ UNCHANGED <<inputVars, graphVars, resultVars, runVars>>

RouteLayoutEdges ==
    /\ pc = "route"
    /\ layoutEdges' = RouteEdges(layoutNodes, edges, direction)
    /\ pc' = "laidout"
    /\ UNCHANGED <<cancelled, idx, params, layers, processed, currentLayer, layerIdx, layoutNodes,
                   layoutSize>>
    /\ UNCHANGED <<inputVars, graphVars, resultVars, runVars>>

\* the layout is rendered and written to the output path; Generate returns its result
\* svgRenderer.Render or writeFile returns an error (an output path that cannot be written):
\* ExportDiagram returns it, nothing is written, Generate wraps and returns the error
WriteDiagramFails ==
    /\ pc = "laidout"
    /\ Fail
    /\ UNCHANGED <<cancelled, idx>>
    /\ UNCHANGED <<inputVars, graphVars, layoutVars, runVars>>

\* Render and writeFile succeed: the file is written and Generate returns its result
WriteDiagram ==
    /\ pc = "laidout"
    /\ written' = TRUE
    /\ outcome' = "ok"
    /\ resourceCount' = Len(resources)
    /\ pc' = "done"
    /\ UNCHANGED <<cancelled, idx>>
    /\ UNCHANGED <<inputVars, graphVars, layoutVars, runVars>>

Next ==
    \/ Cancel
    \/ GenerateInvalidInput
    \/ GenerateCancelled
    \/ GenerateNoResources
    \/ GenerateBuild
    \/ CreateNode
    \/ CreateNodeCancelled
    \/ BuildAttributeIndex
    \/ AddExplicitEdges
    \/ AddExplicitEdgesCancelled
    \/ DetectImplicit
    \/ RenderDiagram
    \/ LayoutEmpty
    \/ SeedLayer
    \/ AssignLayer
    \/ LayersDone
    \/ MinimizeCrossings
    \/ AssignCoordinates
    \/ ResolveOverlaps
    \/ RouteLayoutEdges
    \/ WriteDiagramFails
    \/ WriteDiagram

Spec == Init /\ [][Next]_vars

\* ------------------------------------------------------------------------
\* A second request on the same input: Graph and Layout are created afresh
\* ------------------------------------------------------------------------
Rerun ==
    /\ pc = "done"
    /\ outcome = "ok"
    /\ run < MaxRuns
    /\ firstRun' = IF run = 1
                   THEN [ok |-> TRUE, layers |-> layers, nodes |-> layoutNodes, edges |-> layoutEdges]
                   ELSE firstRun
    /\ run' = run + 1
    /\ cancelled' = FALSE
    /\ pc' = "generate"
    /\ idx' = 0
    /\ nodes' = EmptyMap
    /\ attributeIndex' = EmptyIndex
    /\ edges' = <<>>
    /\ implicitRan' = FALSE
    /\ params' = NoParams
    /\ layers' = <<>>
    /\ processed' = {}
    /\ currentLayer' = {}
    /\ layerIdx' = 0
    /\ layoutNodes' = EmptyMap
    /\ layoutSize' = [Width |-> 0, Height |-> 0]
    /\ layoutEdges' = <<>>
    /\ outcome' = "pending"
    /\ written' = FALSE
    /\ resourceCount' = 0
    /\ UNCHANGED inputVars

NextTwice == Next \/ Rerun

SpecTwice == Init /\ [][NextTwice]_vars

\* ------------------------------------------------------------------------
\* CalculateImprovedLayout called directly, as the layout tests call it, on a graph of
\* compute instances: a row of up to MaxRow unconnected ones, or a chain of two
\* ------------------------------------------------------------------------
RowResources(n, chained) ==
    [pos \in 1..n |->
        [ID |-> IDPool[pos], Type |-> "aws_instance", Name |-> "a", Provider |-> "aws",
         Attributes |-> NoAttributes,
         Dependencies |-> IF chained /\ pos = 1 THEN <<IDPool[2]>> ELSE <<>>]]

\* two networks that depend on a third one; with ring the third depends on both of them,
\* so that no node is a root and the three are seeded into one layer
FanInResources(ring) ==
    [pos \in 1..3 |->
        [ID |-> IDPool[pos], Type |-> "aws_vpc", Name |-> <<"a", "b", "c">>[pos], Provider |-> "aws",
         Attributes |-> NoAttributes,
         Dependencies |-> IF pos < 3 THEN <<IDPool[3]>>
                          ELSE IF ring THEN <<IDPool[1], IDPool[2]>> ELSE <<>>]]

\* n instances that all depend on one network
WideFanInResources(n) ==
    [pos \in 1..(n + 1) |->
        IF pos <= n
        THEN [ID |-> ChainIDs[pos], Type |-> "aws_instance", Name |-> SiblingNames[pos], Provider |-> "aws",
              Attributes |-> NoAttributes, Dependencies |-> <<IDPool[1]>>]
        ELSE [ID |-> IDPool[1], Type |-> "aws_vpc", Name |-> "a", Provider |-> "aws",
              Attributes |-> NoAttributes, Dependencies |-> <<>>]]

\* n networks in a cycle of dependencies: no node has in-degree zero
RingResources(n) ==
    [pos \in 1..n |->
        [ID |-> IDPool[pos], Type |-> "aws_vpc", Name |-> SiblingNames[pos], Provider |-> "aws",
         Attributes |-> NoAttributes, Dependencies |-> <<IDPool[(pos % n) + 1]>>]]

\* laid out with every size of LayoutParams: the nodes of these graphs stand in one row or
\* one column, so an overlapping pair always shares a coordinate
LayoutInputs ==
    {RowResources(n, FALSE) : n \in 0..MaxRow} \cup {RowResources(2, TRUE)}
    \cup {FanInResources(TRUE)}

\* laid out with the sizes of ExportDiagram only, which leave no pair overlapping
WideLayoutInputs ==
    {WideFanInResources(WideFanIn), FanInResources(FALSE), RingResources(SeedCap + 1)}

\* the sizes the layout is asked for: those of ExportDiagram, and small ones
LayoutParams ==
    {ExportParams,
     [nodeWidth |-> 40, nodeHeight |-> 40, hSpacing |-> 4, vSpacing |-> 4],
     [nodeWidth |-> 20, nodeHeight |-> 20, hSpacing |-> 0, vSpacing |-> 0],
     [nodeWidth |-> 40, nodeHeight |-> 40, hSpacing |-> 8, vSpacing |-> 8]}

GraphNodes(rs) ==
    [id \in {rs[k].ID : k \in 1..Len(rs)} |-> NewNode(rs[CHOOSE k \in 1..Len(rs) : rs[k].ID = id])]

RECURSIVE GraphEdges(_, _, _)
GraphEdges(rs, ns, k) ==
    IF k = 0 THEN <<>>
    ELSE AddDependencies(ns, GraphEdges(rs, ns, k - 1), rs[k].ID, rs[k].Dependencies)

InitLayout ==
    /\ \/ resources \in LayoutInputs /\ params \in LayoutParams
       \/ resources \in WideLayoutInputs /\ params = ExportParams
    /\ direction \in Directions
    /\ format = Nil
    /\ nodes = GraphNodes(resources)
    /\ edges = GraphEdges(resources, nodes, Len(resources))
    /\ attributeIndex = EmptyIndex
    /\ implicitRan = TRUE
    /\ cancelled = FALSE
    /\ pc = "layout"
    /\ idx = 0
    /\ layers = <<>>
    /\ processed = {}
    /\ currentLayer = {}
    /\ layerIdx = 0
    /\ layoutNodes = EmptyMap
    /\ layoutSize = [Width |-> 0, Height |-> 0]
    /\ layoutEdges = <<>>
    /\ outcome = "pending"
    /\ written = FALSE
    /\ resourceCount = 0
    /\ run = 1
    /\ firstRun = NoRun

NextLayout ==
    \/ LayoutEmpty
    \/ SeedLayer
    \/ AssignLayer
    \/ LayersDone
    \/ MinimizeCrossings
    \/ AssignCoordinates
    \/ ResolveOverlaps
    \/ RouteLayoutEdges

SpecLayout == InitLayout /\ [][NextLayout]_vars

\* ------------------------------------------------------------------------
\* reorderLayerByBarycenter called once on two layers: two dependents in layer 0 and
\* the resources they depend on in layer 1
\* ------------------------------------------------------------------------
\* two instances r1, r2 and n networks; network c is a dependency of the instances
\* dependents[c]
TwoLayerResources(n, dependents) ==
    [pos \in 1..(n + 2) |->
        IF pos <= 2
        THEN [ID |-> IDPool[pos], Type |-> "aws_instance", Name |-> SiblingNames[pos], Provider |-> "aws",
              Attributes |-> NoAttributes,
              Dependencies |->
                  LET mine == SelectSeq([c \in 1..n |-> c], LAMBDA c : pos \in dependents[c])
                  IN [k \in 1..Len(mine) |-> ChainIDs[mine[k]]]]
        ELSE [ID |-> ChainIDs[pos - 2], Type |-> "aws_vpc", Name |-> SiblingNames[pos - 2],
              Provider |-> "aws", Attributes |-> NoAttributes, Dependencies |-> <<>>]]

TwoLayers(n) == << <<IDPool[1], IDPool[2]>>, [c \in 1..n |-> ChainIDs[c]] >>

\* the small inputs, and a layer of MaxInsertion + 1 nodes whose dependents alternate
ReorderInputs ==
    UNION {{TwoLayerResources(n, dependents) : dependents \in [1..n -> SUBSET {1, 2}]} : n \in 1..MaxSiblings}
    \cup {TwoLayerResources(MaxInsertion + 1, [c \in 1..(MaxInsertion + 1) |-> {1 + (c % 2)}]),
          TwoLayerResources(MaxInsertion + 1, [c \in 1..(MaxInsertion + 1) |-> {1}]),
          TwoLayerResources(MaxInsertion, [c \in 1..MaxInsertion |-> {1 + (c % 2)}])}

InitReorder ==
    /\ resources \in ReorderInputs
    /\ direction = "TB"
    /\ format = Nil
    /\ params = ExportParams
    /\ nodes = GraphNodes(resources)
    /\ edges = GraphEdges(resources, nodes, Len(resources))
    /\ attributeIndex = EmptyIndex
    /\ implicitRan = TRUE
    /\ cancelled = FALSE
    /\ pc = "reorder"
    /\ idx = 0
    /\ layers = TwoLayers(Len(resources) - 2)
    /\ processed = DOMAIN nodes
    /\ currentLayer = {}
    /\ layerIdx \in {0, 1}
    /\ layoutNodes = EmptyMap
    /\ layoutSize = [Width |-> 0, Height |-> 0]
    /\ layoutEdges = <<>>
    /\ outcome = "pending"
    /\ written = FALSE
    /\ resourceCount = 0
    /\ run = 1
    /\ firstRun = NoRun

\* one call reorderLayerByBarycenter(layers, layerIdx, g, forward): forward for layer 1,
\* backward for layer 0
ReorderLayer ==
    /\ pc = "reorder"
    /\ layers' \in reorderLayerByBarycenter(layers, edges, layerIdx, layerIdx = 1)
    /\ pc' = "reordered"
    /\ UNCHANGED <<cancelled, idx, params, processed, currentLayer, layerIdx, layoutNodes, layoutSize,
                   layoutEdges>>
    /\ UNCHANGED <<inputVars, graphVars, resultVars, runVars>>

NextReorder == ReorderLayer

SpecReorder == InitReorder /\ [][NextReorder]_vars

TypeOK ==
    /\ pc \in {"generate", "nodes", "edges", "built", "layout", "layers", "crossings", "coordinates", "overlaps",
               "route", "laidout", "done", "reorder", "reordered"}
    /\ outcome \in {"pending", "error", "ok"}

\* ------------------------------------------------------------------------
\* Derived notions used by the properties
\* ------------------------------------------------------------------------
EdgePairs(es) == {<<es[k].From, es[k].To>> : k \in 1..Len(es)}

\* the layering is complete: assignLayersWithGrouping has returned
Layered == pc \in {"crossings", "coordinates", "overlaps", "route", "laidout", "done"} /\ layers # <<>>

\* CalculateImprovedLayout has returned its layout
LaidOut == pc = "laidout" \/ (pc = "done" /\ outcome = "ok")

IsLayered(id) == \E k \in 1..Len(layers) : id \in Range(layers[k])

\* 0-based layer of a node that has one
LayerOf(id) == (CHOOSE k \in 1..Len(layers) : id \in Range(layers[k])) - 1

RECURSIVE Closure(_, _)
Closure(S, es) ==
    LET next == S \cup UNION {outEdges(es, id) : id \in S}
    IN IF next = S THEN S ELSE Closure(next, es)

\* the nodes reachable from id along one or more edges
ReachFrom(es, id) == Closure(outEdges(es, id), es)

OnCycle(es) == {id \in DOMAIN nodes : id \in ReachFrom(es, id)}

\* the nodes that lie on a cycle or can be reached from one
BelowCycle(es) == Closure(OnCycle(es), es)

\* the explicit edges BuildGraph owes to the first n resources of the list
OwedPairs(n) ==
    {<<resources[p].ID, resources[p].Dependencies[k]>> :
        <<p, k>> \in {<<p, k>> \in (1..n) \X (1..MaxDeps) :
                        /\ k <= Len(resources[p].Dependencies)
                        /\ resources[p].ID \in DOMAIN nodes
                        /\ resources[p].Dependencies[k] \in DOMAIN nodes}}

\* ------------------------------------------------------------------------
\* Properties
\* ------------------------------------------------------------------------

\* C1: the key set of Layout.Nodes returned by CalculateImprovedLayout equals the key set of
\* Graph.Nodes, for every graph, dependency chains of any depth included.
C1_LayoutKeysEqualGraphKeys == LaidOut => DOMAIN layoutNodes = DOMAIN nodes

\* C2: Graph.Edges never holds two edges with the same ordered (From, To) pair, and an addEdge
\* never changes or removes an edge that is already there.
C2_NoDuplicateEdges ==
    /\ [](\A a, b \in 1..Len(edges) : (edges[a].From = edges[b].From /\ edges[a].To = edges[b].To) => a = b)
    /\ [][Len(edges') >= Len(edges) /\ \A k \in 1..Len(edges) : edges'[k] = edges[k]]_vars

\* C2 witness: BuildGraph has returned after a resource named the same node twice in its
\* Dependencies and after the implicit pass met an edge the dependencies had already made.
C2_Witness ==
    /\ pc = "built"
    /\ implicitRan
    /\ \E p \in 1..Len(resources) :
          /\ Len(resources[p].Dependencies) = 2
          /\ resources[p].Dependencies[1] = resources[p].Dependencies[2]
          /\ <<resources[p].ID, resources[p].Dependencies[1]>> \in EdgePairs(edges)
          /\ IsFirewallNode(nodes[resources[p].ID])
          /\ resources[p].Dependencies[1] \in DOMAIN nodes
          /\ IsDropletNode(nodes[resources[p].Dependencies[1]])
          /\ nodes[resources[p].Dependencies[1]].Attributes.id \in Range(resources[p].Attributes.droplet_ids)

\* C3: in every graph BuildGraph can return, complete or partial, both endpoints of every edge
\* are nodes of Graph.Nodes stored under their own IDs.
C3_EdgeEndpointsAreNodes ==
    \A k \in 1..Len(edges) :
        /\ edges[k].From \in DOMAIN nodes /\ nodes[edges[k].From].ID = edges[k].From
        /\ edges[k].To \in DOMAIN nodes /\ nodes[edges[k].To].ID = edges[k].To

\* C3 witness: a returned graph with an explicit and an implicit edge, built from a list that
\* also names an unknown ID.
C3_Witness ==
    /\ pc = "built"
    /\ implicitRan
    /\ \E p \in 1..Len(resources) : GhostID \in Range(resources[p].Dependencies)
    /\ OwedPairs(Len(resources)) # {}
    /\ EdgePairs(edges) \ OwedPairs(Len(resources)) # {}

\* C4 as stated: every edge (u -> v) that lies on no cycle has layer(u) < layer(v).
C4_AcyclicEdgesPointDown ==
    Layered =>
        \A k \in 1..Len(edges) :
            (/\ edges[k].From \notin ReachFrom(edges, edges[k].To)
             /\ edges[k].From # edges[k].To
             /\ IsLayered(edges[k].From) /\ IsLayered(edges[k].To))
            => LayerOf(edges[k].From) < LayerOf(edges[k].To)

\* C4 amended: for every edge (u -> v) whose target v cannot be reached from a cycle (so for
\* every edge of an acyclic graph), if v has a layer then u has one and layer(u) < layer(v).
C4_EdgesClearOfCyclesPointDown ==
    Layered =>
        \A k \in 1..Len(edges) :
            (edges[k].To \notin BelowCycle(edges) /\ IsLayered(edges[k].To))
            => (IsLayered(edges[k].From) /\ LayerOf(edges[k].From) < LayerOf(edges[k].To))

\* C4 witness: a layered graph in which a node clear of cycles has two parents in different
\* layers, next to one that holds a cycle.
C4_Witness ==
    /\ Layered
    /\ \E a, b \in 1..Len(edges) :
          /\ edges[a].To = edges[b].To
          /\ edges[a].To \notin BelowCycle(edges)
          /\ LayerOf(edges[a].From) < LayerOf(edges[b].From)
          /\ LayerOf(edges[b].From) < LayerOf(edges[b].To)

\* C4 witness for the excluded case: a layered graph with a cycle
C4_CycleLayered == Layered /\ OnCycle(edges) # {}

\* C7: BuildGraph looks at the context at the start of each of its three phases; with the
\* context cancelled at that point the phase does not run: no node and no edge is added.
C7_CancelledPhaseDoesNotRun ==
    [][(/\ cancelled
        /\ \/ pc = "nodes" /\ idx = 1
           \/ pc = "edges" /\ idx = 1
           \/ pc = "edges" /\ idx > Len(resources))
       => (nodes' = nodes /\ edges' = edges)]_vars

\* C8: once the context is cancelled before or during graph construction, Generate never lays
\* out or writes the graph and returns an error, no result.
C8_CancelledNeverRendered ==
    cancelled =>
        /\ pc \in {"generate", "nodes", "edges", "built", "done"}
        /\ ~written
        /\ layers = <<>> /\ layoutNodes = EmptyMap /\ layoutEdges = <<>>
        /\ outcome # "ok"
        /\ pc = "done" => outcome = "error"

\* C8 witness: Generate has returned an error for a request cancelled while BuildGraph had
\* built part of the graph.
C8_Witness ==
    /\ pc = "done"
    /\ cancelled
    /\ outcome = "error"
    /\ DOMAIN nodes # {}
    /\ Cardinality(DOMAIN nodes) < Len(resources)
    /\ ~implicitRan

\* C9: every iteration of the layering loop assigns at least one new node, so the loop makes at
\* most as many iterations as the graph has nodes, cycles and self-loops included.
C9_LayeringProgress ==
    /\ [](pc \in {"layers", "crossings"} =>
            /\ layerIdx = Len(layers)
            /\ layerIdx <= Cardinality(processed)
            /\ Cardinality(processed) <= Cardinality(DOMAIN nodes))
    /\ [][(pc = "layers" /\ layerIdx' # layerIdx) =>
            (layerIdx' = layerIdx + 1 /\ Cardinality(processed') > Cardinality(processed))]_vars

\* C9 witness: the loop has ended on a graph with a self-loop and a longer cycle, all of
\* whose nodes were assigned.
C9_Witness ==
    /\ pc = "crossings"
    /\ processed = DOMAIN nodes
    /\ \E k \in 1..Len(edges) : edges[k].From = edges[k].To
    /\ \E k \in 1..Len(edges) : edges[k].From # edges[k].To /\ edges[k].From \in ReachFrom(edges, edges[k].To)

\* C10: a Dependencies entry that names no retained node yields no edge; every other entry of
\* the same and of the other resources yields its edge.
C10_UnknownDependenciesDropped ==
    /\ pc = "edges" => EdgePairs(edges) = OwedPairs(idx - 1)
    /\ implicitRan => OwedPairs(Len(resources)) \subseteq EdgePairs(edges)
    /\ \A k \in 1..Len(edges) : edges[k].To # GhostID /\ edges[k].To \in DOMAIN nodes

\* C10 witness: BuildGraph has returned for a resource that names first an unknown ID or
\* a filtered-out resource and then a retained node, to which it has its edge.
C10_Witness ==
    /\ pc = "built"
    /\ implicitRan
    /\ \E p \in 1..Len(resources) :
          /\ Len(resources[p].Dependencies) = 2
          /\ resources[p].Dependencies[1] \notin DOMAIN nodes
          /\ <<resources[p].ID, resources[p].Dependencies[2]>> \in EdgePairs(edges)

\* C10 witness for the filtered-out resource
C10_FilteredTarget ==
    /\ pc = "built"
    /\ \E p, q \in 1..Len(resources) :
          /\ resources[p].ID \in DOMAIN nodes
          /\ ~ShouldIncludeInDiagram(resources[q])
          /\ resources[q].ID \in Range(resources[p].Dependencies)

\* the gap between two node boxes along the axis on which they are farthest apart
BoxGap(n1, n2) ==
    Max2(Max2(n2.X - (n1.X + n1.Width), n1.X - (n2.X + n2.Width)),
         Max2(n2.Y - (n1.Y + n1.Height), n1.Y - (n2.Y + n2.Height)))

\* C5: after resolveOverlaps has returned, every two distinct node boxes are at least the
\* margin apart along the X axis or along the Y axis.
C5_ResolvedBoxesKeepMargin ==
    pc \in {"route", "laidout"} =>
        \A a, b \in DOMAIN layoutNodes :
            a # b => BoxGap(layoutNodes[a], layoutNodes[b]) >= OverlapMargin * Unit

\* C6: a second request on the same input ends with the same node layers and positions and
\* the same routed edges as the first.
C6_SecondRunSameLayout ==
    (run = 2 /\ pc = "done" /\ outcome = "ok" /\ firstRun.ok) =>
        /\ layers = firstRun.layers
        /\ layoutNodes = firstRun.nodes
        /\ layoutEdges = firstRun.edges

\* C17: the resource_count of a successful generation is the number of nodes of the graph
\* that was rendered.
C17_ResourceCountIsNodeCount ==
    (pc = "done" /\ outcome = "ok") => resourceCount = Cardinality(DOMAIN nodes)

\* C16: a graph with nodes and no edges, laid out with positive node sizes and spacings, has
\* a positive Width and Height and no EdgeLayout, in every direction.
C16_EdgelessLayoutHasSize ==
    (/\ pc = "laidout"
     /\ DOMAIN nodes # {}
     /\ edges = <<>>
     /\ params.nodeWidth > 0 /\ params.nodeHeight > 0
     /\ params.hSpacing > 0 /\ params.vSpacing > 0) =>
        /\ layoutSize.Width > 0
        /\ layoutSize.Height > 0
        /\ layoutEdges = <<>>

\* C16 witness: a single node without edges has been laid out right to left with positive
\* sizes and spacings, and the layout has a positive size.
C16_Witness ==
    /\ pc = "laidout"
    /\ Cardinality(DOMAIN nodes) = 1
    /\ edges = <<>>
    /\ direction = "RL"
    /\ params.hSpacing > 0 /\ params.vSpacing > 0
    /\ layoutSize.Width > 0 /\ layoutSize.Height > 0
    /\ layoutEdges = <<>>

\* C16 witness for several nodes in one row
C16_RowWitness ==
    /\ pc = "laidout"
    /\ Cardinality(DOMAIN nodes) = MaxRow
    /\ edges = <<>>
    /\ direction = "BT"
    /\ params.hSpacing > 0
    /\ layoutSize.Width > 0

\* the resource a node was created from
ResourceOf(id) == resources[CHOOSE k \in 1..Len(resources) : resources[k].ID = id]

\* the id an element of a list attribute names, whether it is written as a string or as a
\* number
NamedID(v) ==
    IF IsStringValue(v) THEN v ELSE ProviderIDs[CHOOSE k \in 1..Len(NumberIDs) : NumberIDs[k] = v]

\* the pairs of a retained firewall and another retained node whose id the firewall's
\* droplet_ids lists, with neither resource naming the other in Dependencies
ListedPairs ==
    {fd \in (DOMAIN nodes) \X (DOMAIN nodes) :
        /\ IsFirewallNode(nodes[fd[1]])
        /\ fd[2] # fd[1]
        /\ getAttributeString(nodes[fd[2]].Attributes, "id") # ""
        /\ \E k \in 1..Len(nodes[fd[1]].Attributes.droplet_ids) :
              NamedID(nodes[fd[1]].Attributes.droplet_ids[k]) = getAttributeString(nodes[fd[2]].Attributes, "id")
        /\ fd[2] \notin Range(ResourceOf(fd[1]).Dependencies)
        /\ fd[1] \notin Range(ResourceOf(fd[2]).Dependencies)}

\* those of the pairs in which the node is a droplet and its id is listed as a string
ProtectedPairs ==
    {fd \in ListedPairs :
        /\ IsDropletNode(nodes[fd[2]])
        /\ getAttributeString(nodes[fd[2]].Attributes, "id") \in Range(nodes[fd[1]].Attributes.droplet_ids)}

HasProtects(from, to) ==
    \E k \in 1..Len(edges) :
        edges[k].From = from /\ edges[k].To = to /\ edges[k].Relationship = "protects"

\* C13 as stated: when an uncancelled BuildGraph has returned, every retained firewall
\* whose droplet_ids lists the id of another retained node, with no Dependencies entry
\* between the two, has an edge to that node with Relationship "protects".
C13_FirewallProtectsListedNode ==
    (pc = "built" /\ implicitRan /\ ~cancelled) =>
        \A fd \in ListedPairs : HasProtects(fd[1], fd[2])

\* C13: when an uncancelled BuildGraph has returned, every retained firewall whose
\* droplet_ids lists, as a string, the id of a retained droplet, with no Dependencies entry
\* between the two, has an edge to that droplet with Relationship "protects".
C13_FirewallProtectsListedDroplet ==
    (pc = "built" /\ implicitRan /\ ~cancelled) =>
        \A fd \in ProtectedPairs : HasProtects(fd[1], fd[2])

\* C13 witness: an uncancelled BuildGraph has returned a graph with such a firewall and
\* droplet and the "protects" edge between them, while another resource has a declared
\* dependency.
C13_Witness ==
    /\ pc = "built"
    /\ implicitRan
    /\ ~cancelled
    /\ \E fd \in ProtectedPairs :
          /\ HasProtects(fd[1], fd[2])
          /\ \E k \in 1..Len(edges) : edges[k].To = fd[1]

\* C13 witness of the listed cases: an uncancelled BuildGraph has returned a graph in
\* which one firewall lists a load balancer, a droplet by number and a droplet by string,
\* and only the last has the "protects" edge.
C13_ListedCases ==
    /\ pc = "built"
    /\ implicitRan
    /\ ~cancelled
    /\ \E fd \in ProtectedPairs : HasProtects(fd[1], fd[2])
    /\ \E fd \in ListedPairs : ~IsDropletNode(nodes[fd[2]]) /\ ~edgeExists(edges, fd[1], fd[2])
    /\ \E fd \in ListedPairs \ ProtectedPairs : IsDropletNode(nodes[fd[2]]) /\ ~edgeExists(edges, fd[1], fd[2])

\* the retained resources that a retained resource names in Dependencies
RetainedDependencies(id) == Range(ResourceOf(id).Dependencies) \cap DOMAIN nodes

\* C18: in the layout of a graph built from an acyclic dependency list, every resource
\* without dependencies is in layer 0 and every resource is in a strictly earlier layer
\* than each resource that depends on it.
C18_DependenciesLayeredFirst ==
    (LaidOut /\ OnCycle(edges) = {} /\ \A id \in DOMAIN nodes : IsLayered(id)) =>
        \A id \in DOMAIN nodes :
            /\ RetainedDependencies(id) = {} => LayerOf(id) = 0
            /\ \A dep \in RetainedDependencies(id) : LayerOf(dep) < LayerOf(id)

\* C20: in the Layout returned after collision resolution, Width is the largest right edge
\* of a node plus one spacing unit and Height is the largest bottom edge of a node plus one
\* spacing unit (the spacing that the coordinates were assigned with).
C20_SizeIsExtentPlusSpacing ==
    (pc = "laidout" /\ DOMAIN layoutNodes # {}) =>
        /\ layoutSize.Width = MaxOver({layoutNodes[id].X + layoutNodes[id].Width : id \in DOMAIN layoutNodes}, 0)
                              + Enhanced(params.hSpacing)
        /\ layoutSize.Height = MaxOver({layoutNodes[id].Y + layoutNodes[id].Height : id \in DOMAIN layoutNodes}, 0)
                               + Enhanced(params.vSpacing)

\* the resources of the list with this type that have become nodes
RetainedOfType(type) ==
    {k \in 1..Len(resources) : resources[k].Type = type /\ resources[k].ID \in DOMAIN nodes}

\* C14: after an uncancelled BuildGraph on a list with a subnet, a network security group
\* and a subnet/NSG association record naming both by id, the graph has an edge between the
\* NSG node and the subnet node.
C14_AssociationLinksSubnetAndNSG ==
    (pc = "built" /\ implicitRan /\ ~cancelled) =>
        \A a \in 1..Len(resources) :
        \A s \in RetainedOfType("azurerm_subnet") :
        \A g \in RetainedOfType("azurerm_network_security_group") :
            (/\ resources[a].Type = "azurerm_subnet_network_security_group_association"
             /\ resources[a].Attributes.subnet_id = resources[s].Attributes.id
             /\ resources[a].Attributes.network_security_group_id = resources[g].Attributes.id) =>
                \/ <<resources[g].ID, resources[s].ID>> \in EdgePairs(edges)
                \/ <<resources[s].ID, resources[g].ID>> \in EdgePairs(edges)

\* the generic helper types: associations and attachments that are not load-balancer
\* associations
TypesWithAttachment == {"digitalocean_volume_attachment"}
IsHelperType(type) ==
    type \in (TypesWithAssociation \cup TypesWithAttachment) /\ type \notin TypesWithLoadBalancer

\* C15: after the node loop of an uncancelled BuildGraph a resource has a node if and only
\* if the exclusion predicate retains it, and no resource of a deny-listed utility type or
\* of an association or attachment helper type has a node, while load-balancer associations
\* have one.
C15_NodesAreTheRetainedResources ==
    (pc = "built" /\ ~cancelled) =>
        \A k \in 1..Len(resources) :
            /\ resources[k].ID \in DOMAIN nodes <=> ShouldIncludeInDiagram(resources[k])
            /\ resources[k].ID \in DOMAIN nodes <=>
                  ~(resources[k].Type \in excludedTypes \/ IsHelperType(resources[k].Type))

\* the EdgeLayouts that end at node t
RoutesInto(t) == {k \in 1..Len(layoutEdges) : layoutEdges[k].To = t}

\* the offset of an end anchor from the centre of its target, along the side of the target
\* box that the anchor lies on
EndOffset(route) ==
    LET to == layoutNodes[route.To]
    IN IF route.End.Y < to.Y \/ route.End.Y > to.Y + to.Height
       THEN route.End.X - (to.X + to.Width \div 2)
       ELSE route.End.Y - (to.Y + to.Height \div 2)

\* C12: when two or more routed edges end at the same node, their end anchors are pairwise
\* different and the set of their offsets from the centre of the node is unchanged by
\* negation.
C12_SharedTargetAnchorsSpread ==
    pc = "laidout" =>
        \A t \in DOMAIN layoutNodes :
            Cardinality(RoutesInto(t)) >= 2 =>
                /\ \A k, l \in RoutesInto(t) : k # l => layoutEdges[k].End # layoutEdges[l].End
                /\ {EndOffset(layoutEdges[k]) : k \in RoutesInto(t)}
                      = {-EndOffset(layoutEdges[k]) : k \in RoutesInto(t)}

\* C12, the case that holds: two edges from an earlier layer into one node
C12_FanInFromAbove ==
    /\ pc = "laidout"
    /\ direction = "TB"
    /\ \E t \in DOMAIN layoutNodes :
          /\ Cardinality(RoutesInto(t)) = 2
          /\ \A k \in RoutesInto(t) : layoutNodes[layoutEdges[k].From].Layer < layoutNodes[t].Layer
          /\ {EndOffset(layoutEdges[k]) : k \in RoutesInto(t)}
                = {-(ConnectionSpacing * Unit) \div 2, (ConnectionSpacing * Unit) \div 2}

\* the shape that the priority order same layer, intersection, distance, curve selects
ShapeByPriority(route) ==
    LET from == layoutNodes[route.From]
        to == layoutNodes[route.To]
    IN IF from.Layer = to.Layer THEN "orthogonal"
       ELSE IF wouldIntersectNodes(layoutNodes, route.Start, route.End, route.From, route.To)
       THEN "avoidance"
       ELSE IF Closer(route.End.X - route.Start.X, route.End.Y - route.Start.Y, StraightBelow * Unit)
       THEN "straight"
       ELSE "curved"

\* C19: the shape of every routed edge is the one selected by the first condition that
\* holds in the order same layer (orthogonal), straight connector through a third node
\* (detour), anchors closer than the minimum distance (2-point straight line), otherwise a
\* curve; a same-layer edge is orthogonal whatever the distance between its anchors.
C19_ShapeByPriorityOrder ==
    pc = "laidout" =>
        \A k \in 1..Len(layoutEdges) :
            /\ layoutEdges[k].Shape = ShapeByPriority(layoutEdges[k])
            /\ layoutEdges[k].Shape = "straight" => layoutEdges[k].Points = 2

\* the graph is one dependency chain: a single path through all of its nodes
ChainGraph ==
    /\ DOMAIN nodes # {}
    /\ Len(edges) = Cardinality(DOMAIN nodes) - 1
    /\ \A id \in DOMAIN nodes :
          /\ inDegree(edges, id) <= 1
          /\ Cardinality({k \in 1..Len(edges) : edges[k].From = id}) <= 1
    /\ OnCycle(edges) = {}

\* C11: a dependency chain of k resources laid out top to bottom has k layers whose Y
\* coordinates are pairwise distinct and increase with the layer index, and k-1
\* EdgeLayouts of at least 2 points each.
C11_ChainHasOneLayerPerResource ==
    (LaidOut /\ direction = "TB" /\ ChainGraph) =>
        /\ Len(layers) = Cardinality(DOMAIN nodes)
        /\ Cardinality({layoutNodes[id].Y : id \in DOMAIN layoutNodes}) = Cardinality(DOMAIN nodes)
        /\ \A a, b \in DOMAIN layoutNodes :
              layoutNodes[a].Layer < layoutNodes[b].Layer => layoutNodes[a].Y < layoutNodes[b].Y
        /\ Len(layoutEdges) = Cardinality(DOMAIN nodes) - 1
        /\ \A k \in 1..Len(layoutEdges) : layoutEdges[k].Points >= 2

\* C11, the case that holds: a chain of three resources has three layers and two EdgeLayouts
C11_ShortChain ==
    /\ LaidOut
    /\ direction = "TB"
    /\ ChainGraph
    /\ Cardinality(DOMAIN nodes) = 3
    /\ Len(layers) = 3
    /\ Len(layoutEdges) = 2
    /\ \A k \in 1..Len(layoutEdges) : layoutEdges[k].Points >= 2

\* the nodes that the layout places in layer li
LayerNodes(li) == {id \in DOMAIN layoutNodes : layoutNodes[id].Layer = li}

\* twice the midpoint of the extent of layer li along the cross axis: X for TB and BT,
\* Y for LR and RL
CrossMidpoint2(li) ==
    LET lo(id) == IF direction \in {"LR", "RL"} THEN layoutNodes[id].Y ELSE layoutNodes[id].X
        hi(id) == IF direction \in {"LR", "RL"}
                  THEN layoutNodes[id].Y + layoutNodes[id].Height
                  ELSE layoutNodes[id].X + layoutNodes[id].Width
        first == CHOOSE a \in LayerNodes(li) : \A b \in LayerNodes(li) : lo(a) <= lo(b)
        last == CHOOSE a \in LayerNodes(li) : \A b \in LayerNodes(li) : hi(a) >= hi(b)
    IN lo(first) + hi(last)

\* the layers with the most nodes
WidestLayers ==
    {li \in 0..(Len(layers) - 1) :
        \A lj \in 0..(Len(layers) - 1) : Cardinality(LayerNodes(lj)) <= Cardinality(LayerNodes(li))}

\* C21: after coordinate assignment, in every direction, the midpoint of the cross-axis
\* extent of every layer is the midpoint of the extent of the layer with the most nodes.
C21_LayersCentredOnWidest ==
    pc = "overlaps" =>
        \A li \in 0..(Len(layers) - 1) : \A lw \in WidestLayers :
            LayerNodes(li) # {} => CrossMidpoint2(li) = CrossMidpoint2(lw)

\* C21, the case that holds: top to bottom, a layer of one node is centred under a layer
\* of two
C21_CentredTopToBottom ==
    /\ pc = "overlaps"
    /\ direction = "TB"
    /\ \E li \in 0..(Len(layers) - 1) : \E lw \in WidestLayers :
          /\ Cardinality(LayerNodes(li)) = 1
          /\ Cardinality(LayerNodes(lw)) = 2
          /\ CrossMidpoint2(li) = CrossMidpoint2(lw)

\* the 0-based index of id in layer li of the layers ls
IndexIn(ls, li, id) == (CHOOSE k \in 1..Len(ls[li + 1]) : ls[li + 1][k] = id) - 1

\* the nodes at indexes i < j of the layer about to be reordered have equal barycenters
EqualBarycenters(i, j) ==
    LET bi == Barycenter(layers, edges, layerIdx, i, layerIdx = 1)
        bj == Barycenter(layers, edges, layerIdx, j, layerIdx = 1)
    IN ~FracLess(bi, bj) /\ ~FracLess(bj, bi)

\* C22: a call of reorderLayerByBarycenter leaves two nodes of the layer with equal
\* barycenter values (the index of the node when it has no edge into the adjacent layer) in
\* the relative order they had before the call.
C22_EqualBarycentersKeepOrder ==
    [][pc = "reorder" =>
          \A i, j \in 0..(Len(layers[layerIdx + 1]) - 1) :
              (i < j /\ EqualBarycenters(i, j)) =>
                  IndexIn(layers', layerIdx, layers[layerIdx + 1][i + 1])
                      < IndexIn(layers', layerIdx, layers[layerIdx + 1][j + 1])]_vars

\* C22 for layers of up to MaxInsertion nodes, where the claim holds
C22_ShortLayersKeepOrder ==
    [][(pc = "reorder" /\ Len(layers[layerIdx + 1]) <= MaxInsertion) =>
          \A i, j \in 0..(Len(layers[layerIdx + 1]) - 1) :
              (i < j /\ EqualBarycenters(i, j)) =>
                  IndexIn(layers', layerIdx, layers[layerIdx + 1][i + 1])
                      < IndexIn(layers', layerIdx, layers[layerIdx + 1][j + 1])]_vars

\* the end anchor of a route is within the extent of the side of the target box it faces
EndWithinSide(route) ==
    LET to == layoutNodes[route.To]
    IN IF route.End.Y < to.Y \/ route.End.Y > to.Y + to.Height
       THEN route.End.X >= to.X /\ route.End.X <= to.X + to.Width
       ELSE route.End.Y >= to.Y /\ route.End.Y <= to.Y + to.Height

\* C23: when two or more routed edges end at the same node, every end anchor lies along the
\* incoming side of the node: its coordinate along that side is between the position of the
\* node and position plus size.
C23_EndAnchorsWithinTargetExtent ==
    pc = "laidout" =>
        \A t \in DOMAIN layoutNodes :
            Cardinality(RoutesInto(t)) >= 2 =>
                \A k \in RoutesInto(t) : EndWithinSide(layoutEdges[k])

\* C23, the case that holds: two edges into a node of the exported size
C23_TwoIntoExportedNode ==
    /\ pc = "laidout"
    /\ params = ExportParams
    /\ \E t \in DOMAIN layoutNodes :
          /\ Cardinality(RoutesInto(t)) = 2
          /\ \A k \in RoutesInto(t) : EndWithinSide(layoutEdges[k])

\* the gap between a point and a node box: positive when the point is outside the box
PointGap(p, box) ==
    Max2(Max2(box.X - p.X, p.X - (box.X + box.Width)), Max2(box.Y - p.Y, p.Y - (box.Y + box.Height)))

\* C24: the last point of every routed edge lies outside the box of the target node, at least
\* the arrow clearance away from it, in every direction and placement of the two nodes.
C24_EndAnchorKeepsClearance ==
    pc = "laidout" =>
        \A k \in 1..Len(layoutEdges) :
            PointGap(layoutEdges[k].End, layoutNodes[layoutEdges[k].To]) >= ArrowClearance * Unit

\* C24 witness: a layout from left to right with an edge inside one layer, whose end anchor
\* is above or below its target at the arrow clearance.
C24_Witness ==
    /\ pc = "laidout"
    /\ direction = "LR"
    /\ \E k \in 1..Len(layoutEdges) :
          LET to == layoutNodes[layoutEdges[k].To]
          IN /\ layoutNodes[layoutEdges[k].From].Layer = to.Layer
             /\ layoutEdges[k].End.Y \notin to.Y..(to.Y + to.Height)
             /\ PointGap(layoutEdges[k].End, to) = ArrowClearance * Unit

\* C25: the layout holds exactly one EdgeLayout for each edge of the graph, in the order of
\* Graph.Edges, and every EdgeLayout has at least two points.
C25_OneEdgeLayoutPerEdge ==
    pc = "laidout" =>
        /\ Len(layoutEdges) = Len(edges)
        /\ \A k \in 1..Len(layoutEdges) :
              /\ k <= Len(edges)
              /\ layoutEdges[k].From = edges[k].From
              /\ layoutEdges[k].To = edges[k].To
              /\ layoutEdges[k].Points >= 2

\* C25, the case that holds: every node has been given a layer, and the edges are all routed
C25_AllNodesLayered ==
    /\ pc = "laidout"
    /\ DOMAIN layoutNodes = DOMAIN nodes
    /\ Len(edges) >= 2
    /\ Len(layoutEdges) = Len(edges)

\* the nodes without incoming edge, and the nodes of the Security and Network categories
RootNodes == {id \in DOMAIN nodes : inDegree(edges, id) = 0}

InfraNodes == {id \in DOMAIN nodes : nodes[id].ResourceType \in {"Security", "Network"}}

LayerZero == Range(layers[1])

\* C26 as stated: layer 0 is the set of nodes of in-degree zero if there is one; otherwise
\* the Security/Network nodes if the graph has any; otherwise a single node.
C26_LayerZeroIsAllInfra ==
    (Layered /\ layers # <<>>) =>
        IF RootNodes # {} THEN LayerZero = RootNodes
        ELSE IF InfraNodes # {} THEN LayerZero = InfraNodes
        ELSE Cardinality(LayerZero) = 1

\* C26: layer 0 is the set of nodes of in-degree zero if there is one; otherwise it is made
\* of Security/Network nodes, all of them up to the limit of three, if the graph has any;
\* otherwise it is a single node.
C26_LayerZeroSeeding ==
    (Layered /\ layers # <<>>) =>
        IF RootNodes # {} THEN LayerZero = RootNodes
        ELSE IF InfraNodes # {}
        THEN /\ LayerZero \subseteq InfraNodes
             /\ Cardinality(LayerZero) = Min2(SeedCap, Cardinality(InfraNodes))
        ELSE Cardinality(LayerZero) = 1

\* C26 witness: a graph without a root and with more Security/Network nodes than the limit
\* has been layered, and layer 0 holds three of them.
C26_Witness ==
    /\ Layered
    /\ RootNodes = {}
    /\ Cardinality(InfraNodes) > SeedCap
    /\ Cardinality(LayerZero) = SeedCap
    /\ LayerZero \subseteq InfraNodes

\* C27: in the layout returned by CalculateImprovedLayout every node box lies inside the
\* canvas: X >= 0, Y >= 0, X + Width <= Layout.Width and Y + Height <= Layout.Height, also
\* when resolveOverlaps has moved nodes.
C27_NodeBoxesInsideCanvas ==
    pc = "laidout" =>
        \A id \in DOMAIN layoutNodes :
            /\ layoutNodes[id].X >= 0
            /\ layoutNodes[id].Y >= 0
            /\ layoutNodes[id].X + layoutNodes[id].Width <= layoutSize.Width
            /\ layoutNodes[id].Y + layoutNodes[id].Height <= layoutSize.Height

\* C27, the case that holds: with the sizes of ExportDiagram no node is moved, and the boxes
\* of a layout of two layers are inside the canvas
C27_ExportSizesInsideCanvas ==
    /\ pc = "laidout"
    /\ params = ExportParams
    /\ Len(layers) >= 2
    /\ \A id \in DOMAIN layoutNodes :
          /\ layoutNodes[id].X >= 0
          /\ layoutNodes[id].Y >= 0
          /\ layoutNodes[id].X + layoutNodes[id].Width <= layoutSize.Width
          /\ layoutNodes[id].Y + layoutNodes[id].Height <= layoutSize.Height

\* the retained resources reachable from the set S along declared dependencies
RECURSIVE DependencyClosure(_)
DependencyClosure(S) ==
    LET next == S \cup UNION {RetainedDependencies(id) : id \in S}
    IN IF next = S THEN S ELSE DependencyClosure(next)

\* the Dependencies relation among the retained resources has no cycle and no self-reference
DependenciesAcyclic ==
    \A id \in DOMAIN nodes : id \notin DependencyClosure(RetainedDependencies(id))

\* C28: when the Dependencies relation among the retained resources is acyclic, the edges of
\* the graph returned by BuildGraph, explicit and implicit, form no cycle.
C28_ImplicitEdgesCloseNoCycle ==
    (pc \notin {"generate", "nodes", "edges"} /\ DependenciesAcyclic) => OnCycle(edges) = {}

\* C28, the case that holds: an implicit edge has been added beside an explicit one and the
\* graph has no cycle
C28_ImplicitEdgeWithoutCycle ==
    /\ pc = "built"
    /\ DependenciesAcyclic
    /\ \E k, l \in 1..Len(edges) : edges[k].Relationship = "protects" /\ edges[l].Relationship # "protects"
    /\ OnCycle(edges) = {}

\* the graph an uncancelled BuildGraph returns on the resource list, before the implicit
\* pass appends its edges: a node per retained resource, and an edge per declared dependency
\* between two retained resources, in list order, each pair once
UncancelledIDs == {resources[k].ID : k \in {p \in 1..Len(resources) : ShouldIncludeInDiagram(resources[p])}}

UncancelledNodes == [id \in UncancelledIDs |-> NewNode(ResourceOf(id))]

RECURSIVE DeclaredPairs(_)
DeclaredPairs(k) ==
    IF k = 0 THEN <<>>
    ELSE LET kept == SelectSeq(resources[k].Dependencies, LAMBDA d : d \in UncancelledIDs)
         IN DeclaredPairs(k - 1)
            \o (IF resources[k].ID \in UncancelledIDs
                THEN [j \in 1..Len(kept) |-> <<resources[k].ID, kept[j]>>]
                ELSE <<>>)

UncancelledExplicitEdges ==
    LET pairs == DeclaredPairs(Len(resources))
        firsts == SelectSeq([j \in 1..Len(pairs) |-> j], LAMBDA j : \A i \in 1..(j - 1) : pairs[i] # pairs[j])
    IN [m \in 1..Len(firsts) |->
          [From |-> pairs[firsts[m]][1], To |-> pairs[firsts[m]][2],
           Relationship |-> inferRelationship(UncancelledNodes[pairs[firsts[m]][1]],
                                              UncancelledNodes[pairs[firsts[m]][2]])]]

IsPrefix(s, t) == Len(s) <= Len(t) /\ \A k \in 1..Len(s) : s[k] = t[k]

\* BuildGraph has returned from one of its context checks
ReturnedOnCancel == pc = "built" /\ cancelled /\ ~implicitRan

\* C29: a graph that BuildGraph returns after cancellation is a sub-graph of the graph an
\* uncancelled run returns on the same input: its nodes are nodes of that graph, and its edge
\* sequence is a prefix of that graph's edge sequence, Relationship labels included.
C29_CancelledGraphIsPrefix ==
    ReturnedOnCancel =>
        /\ DOMAIN nodes \subseteq UncancelledIDs
        /\ \A id \in DOMAIN nodes : nodes[id] = UncancelledNodes[id]
        /\ IsPrefix(edges, UncancelledExplicitEdges)

\* the uncancelled run: after the dependency loop and after the implicit pass the graph
\* begins with the edges that the cancelled graphs are compared with
C29_UncancelledGraphExtends ==
    ((pc = "edges" /\ idx > Len(resources)) => edges = UncancelledExplicitEdges)
    /\ ((pc = "built" /\ implicitRan) =>
           (IsPrefix(UncancelledExplicitEdges, edges) /\ nodes = UncancelledNodes))

\* C29 witness: BuildGraph has returned from the context check of the dependency loop with
\* some but not all of the explicit edges.
C29_Witness ==
    /\ ReturnedOnCancel
    /\ edges # <<>>
    /\ Len(edges) < Len(UncancelledExplicitEdges)

\* the places <<layer, index>> of the layers
LayerPlaces == {pl \in (1..Len(layers)) \X (1..Cardinality(DOMAIN nodes)) : pl[2] <= Len(layers[pl[1]])}

\* C30: from the end of the layer assignment to the end of the crossing minimization no node
\* ID stands in two layers or twice in one layer.
C30_LayersDisjointAndDuplicateFree ==
    (pc \in {"crossings", "coordinates"} /\ layers # <<>>) =>
        \A p, q \in LayerPlaces : p # q => layers[p[1]][p[2]] # layers[q[1]][q[2]]

\* C30 witness: the crossing minimization has reordered the layers of a graph with a cycle,
\* among them a layer of several nodes.
C30_Witness ==
    /\ pc = "coordinates"
    /\ OnCycle(edges) # {}
    /\ Len(layers) >= 2
    /\ \E k \in 1..Len(layers) : Len(layers[k]) >= 2

====
